---- MODULE Spec2Model ----
(***************************************************************************)
(* A model of the Pantheon metrics exporter: the collector (an in-memory   *)
(* store of sites guarded by a read-write lock, and its export), and the   *)
(* refresh manager (site-list discovery, the rate-limited metrics-refresh  *)
(* loop and the per-site refresh tasks).                                   *)
(*                                                                         *)
(* The specifications share the variables.  The first three:               *)
(*   SpecStore  the collector's operations, step by step, called by        *)
(*              concurrent threads;                                        *)
(*   SpecTick   the metrics-refresh loop alone, over a site list that      *)
(*              does not change;                                           *)
(*   Spec       the refresh manager after start-up: discovery cycles,      *)
(*              ticks, per-site tasks and the initial metrics collection,  *)
(*              each collector call taken as one step (the lock makes it   *)
(*              atomic, which SpecStore checks).                           *)
(* The other specifications start the same variables in the states a part  *)
(* of the program is about: SpecQueue and SpecRatio (the loop over lists   *)
(* of every length), SpecAccounts and SpecLoops (the manager with two      *)
(* accounts, before and after start-up), SpecFetch and SpecSnapshot (the   *)
(* metrics a fetch stores and the export reads), SpecSession (the session  *)
(* manager called by concurrent goroutines) and SpecFair (the two loops    *)
(* running for ever, under weak fairness).                                 *)
(*                                                                         *)
(* Strings that the code parses (timestamp keys, cache-hit ratios) are     *)
(* sequences of one-character strings, so that parsing is modelled by what *)
(* it does.  Strings that the code only compares (account, site name,      *)
(* token) are TLA+ strings.  The site key account + ":" + siteName is the  *)
(* pair <<account, siteName>>.  The fields of a site record that no        *)
(* operation reads or changes (Label, PlanName, SiteID) are left out.      *)
(***************************************************************************)
EXTENDS Integers, Sequences, FiniteSets, TLC

VARIABLES
    \* the collector
    sites,            \* PantheonCollector.sites
    mu,               \* PantheonCollector.mu: [writer, readers]
    thr,              \* the threads calling the collector: thread -> local state
    versions,         \* history: every value sites has held
    opsStarted,       \* history: number of collector calls started
    \* the metrics-refresh loop
    refreshMinutes,   \* Manager.refreshInterval, in minutes
    siteIndex,        \* refreshMetricsWithQueue: the cursor
    tickerFireCount,  \* Manager.tickerFireCount
    tasks,            \* the per-site goroutines in flight
    dispatchCount,    \* history: site position -> times dispatched
    lastDispatch,     \* history: site position -> tick of its last dispatch
    wraps,            \* history: times the cursor wrapped to 0
    \* the refresh manager and the start-up code
    discoveredSites,  \* Manager.discoveredSites: the keys mapped to true
    accountTokenMap,  \* Manager.accountTokenMap: account -> token
    siteLimit,        \* Manager.siteLimit (0: no limit)
    tokenAccounts,    \* the upstream: token -> the account Authenticate resolves it to
    preFetchedSites,  \* main: token -> the listing loaded at start-up, or NoListing
    main,             \* main after StartRefreshManager: [pc, tok, done, count]
    cycle,            \* refreshAllSiteLists: its position and local variables
    cycleCount,       \* history: discovery cycles started
    report,           \* history: the store's keys at the start of the last finished
                      \*   discovery cycle, and what the cycle logged
    addedCount,       \* history: key -> times logged as added
    removedOpen,      \* history: keys logged as removed and not listed since
    removedTwice,     \* history: a key was logged as removed while in removedOpen
    firstFetch,       \* history: key -> window of the first per-site refresh, or "none"
    laterFetch,       \* history: key -> windows of the later per-site refreshes
    lostSamples,      \* history: keys that lost a timestamp while they stayed in the store
    \* the session manager
    sessions,         \* SessionManager.sessions: machine token -> session
    smMu,             \* SessionManager.mu: [writer, readers]
    smThr             \* the goroutines calling the session manager: goroutine -> local state

storeVars == <<sites, mu, thr, versions, opsStarted>>
tickVars == <<refreshMinutes, siteIndex, tickerFireCount, tasks,
              dispatchCount, lastDispatch, wraps>>
managerVars == <<discoveredSites, accountTokenMap, siteLimit, tokenAccounts, preFetchedSites, main,
                 cycle, cycleCount, report, addedCount, removedOpen, removedTwice,
                 firstFetch, laterFetch, lostSamples>>
sessionVars == <<sessions, smMu, smThr>>
schedVars == <<managerVars, sessionVars>>
vars == <<storeVars, tickVars, schedVars>>

(***************************************************************************)
(* Bounds of the model.                                                    *)
(***************************************************************************)
MaxOps == 2          \* collector calls started in one behaviour of SpecStore
MaxStoreSites == 2   \* SpecStore: length of the site lists
Now0 == 10           \* the clock when an export starts (after every sample)
MaxNowSteps == 1     \* how far the clock moves during one export
MaxN == 7            \* SpecTick: site counts 1..MaxN
MaxD == 5            \* SpecTick: discovery intervals 1..MaxD minutes
MaxTicks == 50       \* SpecTick: ticks of the refresh loop

(***************************************************************************)
(* Data: accounts, site names, samples, sample maps.                       *)
(***************************************************************************)
Accounts == {"a1", "a2"}
Names == {"s1", "s2"}
NoMetrics == << >>   \* an empty (or nil) map[string]MetricData

SampleA == [Visits |-> 1, PagesServed |-> 3, CacheHits |-> 1, CacheMisses |-> 2,
            CacheHitRatio |-> <<"5", "0", "%">>]
SampleB == [Visits |-> 2, PagesServed |-> 0, CacheHits |-> 0, CacheMisses |-> 0,
            CacheHitRatio |-> <<"-", "-">>]

\* Timestamp keys as the upstream sends them (decimal strings); "02" parses to
\* the same instant as "2", and "x" does not parse.
K1 == <<"1">>
K2 == <<"2">>
K02 == <<"0", "2">>
K3 == <<"3">>
KX == <<"x">>

D1 == K1 :> SampleA
D2 == (K1 :> SampleB) @@ (K2 :> SampleA)
D3 == (K1 :> SampleA) @@ (K2 :> SampleB) @@ (K3 :> SampleA)
D4 == (K2 :> SampleA) @@ (K02 :> SampleB)
D5 == (KX :> SampleA) @@ (K1 :> SampleB)

SiteMetrics(account, siteName, metricsData) ==
    [Account |-> account, SiteName |-> siteName, MetricsData |-> metricsData]

\* the zero value of a SiteMetrics struct (what make() fills a slice with)
ZeroSite == SiteMetrics("", "", NoMetrics)

SiteKey(site) == <<site.Account, site.SiteName>>

Range(s) == {s[i] : i \in 1..Len(s)}

\* the injective sequences over S: the orders a Go map may be iterated in
Perms(S) ==
    {f \in [1..Cardinality(S) -> S] : \A i, j \in 1..Cardinality(S) : i # j => f[i] # f[j]}

KeysUnique(list) ==
    \A i, j \in 1..Len(list) : i # j => SiteKey(list[i]) # SiteKey(list[j])

(***************************************************************************)
(* strconv.ParseInt(s, 10, 64) on a sequence of characters.                *)
(***************************************************************************)
DigitChars == {"0", "1", "2", "3", "4", "5", "6", "7", "8", "9"}

DigitVal(c) ==
    CASE c = "0" -> 0 [] c = "1" -> 1 [] c = "2" -> 2 [] c = "3" -> 3 [] c = "4" -> 4
      [] c = "5" -> 5 [] c = "6" -> 6 [] c = "7" -> 7 [] c = "8" -> 8 [] c = "9" -> 9

RECURSIVE DecVal(_)
DecVal(s) ==
    IF s = << >> THEN 0
    ELSE DecVal(SubSeq(s, 1, Len(s) - 1)) * 10 + DigitVal(s[Len(s)])

Unsigned(s) == IF Len(s) > 0 /\ s[1] \in {"+", "-"} THEN Tail(s) ELSE s

\* err == nil (the keys of the model are far below 2^63, so no range error)
ParseIntOk(s) ==
    /\ Len(Unsigned(s)) > 0
    /\ \A i \in 1..Len(Unsigned(s)) : Unsigned(s)[i] \in DigitChars

ParseInt(s) ==
    IF Len(s) > 0 /\ s[1] = "-" THEN 0 - DecVal(Unsigned(s)) ELSE DecVal(Unsigned(s))

(***************************************************************************)
(* parseCacheHitRatio: "--" is 0; otherwise a trailing "%" is trimmed and  *)
(* the rest parsed as a decimal number (strconv.ParseFloat), 0 when it     *)
(* does not parse; the result is the number divided by 100.  The model     *)
(* returns the ratio in units of 1/10000 and covers the decimal forms      *)
(* digits[.digits] with at most two decimals.                              *)
(***************************************************************************)
TrimPercent(s) ==
    IF Len(s) > 0 /\ s[Len(s)] = "%" THEN SubSeq(s, 1, Len(s) - 1) ELSE s

DotAt(s) == {i \in 1..Len(s) : s[i] = "."}

ParseFloatOk(s) ==
    /\ \A i \in 1..Len(s) : s[i] \in DigitChars \cup {"."}
    /\ Cardinality(DotAt(s)) <= 1
    /\ \E i \in 1..Len(s) : s[i] \in DigitChars
    /\ \A d \in DotAt(s) : Len(s) - d <= 2

\* the number times 100
ParseFloat100(s) ==
    IF DotAt(s) = {} THEN DecVal(s) * 100
    ELSE LET d == CHOOSE i \in DotAt(s) : TRUE
             frac == SubSeq(s, d + 1, Len(s))
         IN  DecVal(SubSeq(s, 1, d - 1)) * 100
               + (IF Len(frac) = 1 THEN DecVal(frac) * 10 ELSE DecVal(frac))

\* a plausible slip: the percentage is returned as it is, not divided by 100
parseCacheHitRatioPercent(ratio) ==
    IF ratio = <<"-", "-">> THEN 0
    ELSE IF ~ParseFloatOk(TrimPercent(ratio)) THEN 0
    ELSE ParseFloat100(TrimPercent(ratio)) * 100

parseCacheHitRatio(ratio) ==
    IF ratio = <<"-", "-">> THEN 0
    ELSE IF ~ParseFloatOk(TrimPercent(ratio)) THEN 0
    ELSE ParseFloat100(TrimPercent(ratio))

(***************************************************************************)
(* The collector's operations on the site list, each as the function of    *)
(* the list that its critical section computes.                            *)
(***************************************************************************)
\* a plausible slip: the new records are appended to the list
UpdateSitesAppend(cur, newSites) == cur \o newSites

\* UpdateSites: c.sites = sites
UpdateSites(cur, newSites) == newSites

\* GetSites: sitesCopy := make([]SiteMetrics, len(c.sites))
GetSitesMake(cur) == [i \in 1..Len(cur) |-> ZeroSite]

\* GetSites: copy(sitesCopy, c.sites) copies min(len(dst), len(src)) elements
GetSitesCopy(dst, cur) ==
    [i \in 1..Len(dst) |-> IF i <= Len(cur) THEN cur[i] ELSE dst[i]]

GetSites(cur) == GetSitesCopy(GetSitesMake(cur), cur)

\* the positions of the records matching (accountID, siteName)
MatchingSites(cur, accountID, siteName) ==
    {i \in 1..Len(cur) : cur[i].Account = accountID /\ cur[i].SiteName = siteName}

Min(S) == CHOOSE x \in S : \A y \in S : x <= y
Max(S) == CHOOSE x \in S : \A y \in S : x >= y

\* a plausible slip: the new samples are merged into the old map
MergeSiteMetrics(cur, accountID, siteName, metricsData) ==
    LET m == MatchingSites(cur, accountID, siteName)
    IN  IF m = {} THEN cur
        ELSE [cur EXCEPT ![Min(m)].MetricsData = metricsData @@ @]

\* a plausible slip: counters of a timestamp already stored are added up
AccumulateSiteMetrics(cur, accountID, siteName, metricsData) ==
    LET m == MatchingSites(cur, accountID, siteName)
        Sum(old, new) == [new EXCEPT !.Visits = @ + old.Visits,
                                     !.PagesServed = @ + old.PagesServed,
                                     !.CacheHits = @ + old.CacheHits,
                                     !.CacheMisses = @ + old.CacheMisses]
    IN  IF m = {} THEN cur
        ELSE LET old == cur[Min(m)].MetricsData
             IN  [cur EXCEPT ![Min(m)].MetricsData =
                     [k \in DOMAIN metricsData \cup DOMAIN old |->
                         IF k \in DOMAIN metricsData /\ k \in DOMAIN old
                         THEN Sum(old[k], metricsData[k])
                         ELSE IF k \in DOMAIN metricsData THEN metricsData[k] ELSE old[k]]]

\* a plausible slip: a site that is not in the list is added to it
UpsertSiteMetrics(cur, accountID, siteName, metricsData) ==
    LET m == MatchingSites(cur, accountID, siteName)
    IN  IF m = {} THEN Append(cur, SiteMetrics(accountID, siteName, metricsData))
        ELSE [cur EXCEPT ![Min(m)].MetricsData = metricsData]

\* a plausible slip: the records are matched by site name alone
UpdateSiteMetricsByName(cur, accountID, siteName, metricsData) ==
    [i \in 1..Len(cur) |->
        IF cur[i].SiteName = siteName THEN [cur[i] EXCEPT !.MetricsData = metricsData]
        ELSE cur[i]]

\* UpdateSiteMetrics: the first matching record gets metricsData as its map
UpdateSiteMetrics(cur, accountID, siteName, metricsData) ==
    LET m == MatchingSites(cur, accountID, siteName)
    IN  IF m = {} THEN cur
        ELSE [cur EXCEPT ![Min(m)].MetricsData = metricsData]

(***************************************************************************)
(* Collect, for one site.  The two passes range over the map in orders the *)
(* Go runtime picks.                                                       *)
(***************************************************************************)
MetricKinds == <<"visits", "pagesServed", "cacheHits", "cacheMisses", "cacheHitRatio">>

NoLatest ==
    [hasData |-> FALSE, latestTimestamp |-> 0, latestTimestampStr |-> << >>]

\* first pass: the most recent timestamp among the keys that parse
RECURSIVE FirstPass(_, _, _)
FirstPass(order, i, st) ==
    IF i > Len(order) THEN st
    ELSE LET timestampStr == order[i]
         IN  FirstPass(order, i + 1,
                 IF /\ ParseIntOk(timestampStr)
                    /\ (~st.hasData \/ ParseInt(timestampStr) > st.latestTimestamp)
                 THEN [hasData |-> TRUE,
                       latestTimestamp |-> ParseInt(timestampStr),
                       latestTimestampStr |-> timestampStr]
                 ELSE st)

MetricValue(data, kind) ==
    CASE kind = "visits" -> data.Visits
      [] kind = "pagesServed" -> data.PagesServed
      [] kind = "cacheHits" -> data.CacheHits
      [] kind = "cacheMisses" -> data.CacheMisses
      [] kind = "cacheHitRatio" -> parseCacheHitRatio(data.CacheHitRatio)

\* the five metrics of one sample, sent to the channel with timestamp ts
\* (key is not part of the metric: it records the sample the point came from)
EmitSample(site, timestampStr, ts) ==
    [j \in 1..Len(MetricKinds) |->
        [kind |-> MetricKinds[j],
         site |-> SiteKey(site),
         value |-> MetricValue(site.MetricsData[timestampStr], MetricKinds[j]),
         ts |-> ts,
         key |-> timestampStr]]

\* second pass: every sample but the latest, at its own timestamp
RECURSIVE SecondPass(_, _, _, _)
SecondPass(site, order, i, latestTimestampStr) ==
    IF i > Len(order) THEN << >>
    ELSE LET timestampStr == order[i]
             rest == SecondPass(site, order, i + 1, latestTimestampStr)
         IN  IF timestampStr = latestTimestampStr THEN rest
             ELSE IF ~ParseIntOk(timestampStr) THEN rest
             ELSE EmitSample(site, timestampStr, ParseInt(timestampStr)) \o rest

\* a plausible slip: the latest sample keeps its own timestamp
EmitLatestAtOwnTime(site, latest, now) ==
    IF latest.hasData
    THEN EmitSample(site, latest.latestTimestampStr, latest.latestTimestamp)
    ELSE << >>

\* the latest sample, at the time of the request
EmitLatest(site, latest, now) ==
    IF latest.hasData THEN EmitSample(site, latest.latestTimestampStr, now) ELSE << >>

\* a plausible slip: a key that does not parse ends the export of the site
CollectSiteAborts(site, order1, order2, now) ==
    IF \E k \in DOMAIN site.MetricsData : ~ParseIntOk(k) THEN << >>
    ELSE LET latest == FirstPass(order1, 1, NoLatest)
         IN  SecondPass(site, order2, 1, latest.latestTimestampStr)
               \o EmitLatest(site, latest, now)

\* a plausible slip: the latest sample is sent first, the others after it
CollectSiteLatestFirst(site, order1, order2, now) ==
    LET latest == FirstPass(order1, 1, NoLatest)
    IN  EmitLatest(site, latest, now)
          \o SecondPass(site, order2, 1, latest.latestTimestampStr)

\* a plausible slip: every sample is sent with the time of the export
CollectSiteAllNow(site, order1, order2, now) ==
    LET latest == FirstPass(order1, 1, NoLatest)
    IN  [j \in 1..Len(SecondPass(site, order2, 1, latest.latestTimestampStr)) |->
             [SecondPass(site, order2, 1, latest.latestTimestampStr)[j] EXCEPT !.ts = now]]
          \o EmitLatest(site, latest, now)

CollectSite(site, order1, order2, now) ==
    LET latest == FirstPass(order1, 1, NoLatest)
    IN  SecondPass(site, order2, 1, latest.latestTimestampStr)
          \o EmitLatest(site, latest, now)

(***************************************************************************)
(* SpecStore: threads calling the collector.  A call takes the lock in its *)
(* first step and releases it in its last; sync.RWMutex lets a writer in   *)
(* when nobody holds the lock and a reader in when no writer holds it.     *)
(***************************************************************************)
Threads == {"t1", "t2"}

StoreKeys == {<<"a1", "s1">>, <<"a1", "s2">>, <<"a2", "s1">>}

\* the site lists of at most MaxStoreSites records with pairwise distinct keys
SiteLists(maps) ==
    UNION {{l \in [1..n -> {SiteMetrics(k[1], k[2], d) : k \in StoreKeys, d \in maps}] :
                KeysUnique(l)} : n \in 0..MaxStoreSites}

\* the lists the store starts with, and the lists UpdateSites is called with
InitSiteLists == SiteLists({NoMetrics, D3})
NewSiteLists == SiteLists({D1})
\* the maps UpdateSiteMetrics is called with
NewMetricsMaps == {D1, D2, D4, D5}

IdleThread == [pc |-> "idle", arg |-> << >>, buf |-> << >>, i |-> 0, out |-> << >>, now |-> 0]

NoLock == [writer |-> "none", readers |-> {}]

InitStore ==
    /\ sites \in InitSiteLists
    /\ mu = NoLock
    /\ thr = [t \in Threads |-> IdleThread]
    /\ versions = {sites}
    /\ opsStarted = 0

\* a thread calls one of the collector's methods
Call(t, method, arg) ==
    /\ thr[t].pc = "idle"
    /\ opsStarted < MaxOps
    /\ thr' = [thr EXCEPT ![t] = [IdleThread EXCEPT !.pc = method, !.arg = arg]]
    /\ opsStarted' = opsStarted + 1
    /\ UNCHANGED <<sites, mu, versions>>

\* c.mu.Lock(); c.sites = sites          (buf keeps the list as it was before)
UpdateSitesLock(t) ==
    /\ thr[t].pc = "UpdateSites.Lock"
    /\ mu = NoLock
    /\ mu' = [mu EXCEPT !.writer = t]
    /\ sites' = UpdateSites(sites, thr[t].arg)
    /\ versions' = versions \cup {sites'}
    /\ thr' = [thr EXCEPT ![t].pc = "UpdateSites.Unlock", ![t].buf = sites]
    /\ UNCHANGED opsStarted

\* c.mu.Lock(); the loop over c.sites   (buf keeps the list as it was before)
UpdateSiteMetricsLock(t) ==
    /\ thr[t].pc = "UpdateSiteMetrics.Lock"
    /\ mu = NoLock
    /\ mu' = [mu EXCEPT !.writer = t]
    /\ sites' = UpdateSiteMetrics(sites, thr[t].arg[1], thr[t].arg[2], thr[t].arg[3])
    /\ versions' = versions \cup {sites'}
    /\ thr' = [thr EXCEPT ![t].pc = "UpdateSiteMetrics.Unlock", ![t].buf = sites]
    /\ UNCHANGED opsStarted

\* defer c.mu.Unlock()
Unlock(t) ==
    /\ thr[t].pc \in {"UpdateSites.Unlock", "UpdateSiteMetrics.Unlock"}
    /\ mu' = [mu EXCEPT !.writer = "none"]
    /\ thr' = [thr EXCEPT ![t] = IdleThread]
    /\ UNCHANGED <<sites, versions, opsStarted>>

\* a plausible slip: GetSites reads c.sites without taking the lock
GetSitesNoLock(t) ==
    /\ thr[t].pc = "GetSites.RLock"
    /\ thr' = [thr EXCEPT ![t].pc = "GetSites.copy", ![t].buf = GetSitesMake(sites)]
    /\ UNCHANGED <<sites, mu, versions, opsStarted>>

\* c.mu.RLock(); sitesCopy := make([]SiteMetrics, len(c.sites))
GetSitesRLock(t) ==
    /\ thr[t].pc = "GetSites.RLock"
    /\ mu.writer = "none"
    /\ mu' = [mu EXCEPT !.readers = @ \cup {t}]
    /\ thr' = [thr EXCEPT ![t].pc = "GetSites.copy", ![t].buf = GetSitesMake(sites)]
    /\ UNCHANGED <<sites, versions, opsStarted>>

\* copy(sitesCopy, c.sites)
GetSitesCopyStep(t) ==
    /\ thr[t].pc = "GetSites.copy"
    /\ thr' = [thr EXCEPT ![t].pc = "GetSites.RUnlock",
                          ![t].buf = GetSitesCopy(thr[t].buf, sites)]
    /\ UNCHANGED <<sites, mu, versions, opsStarted>>

\* a plausible slip: Collect ranges over c.sites without taking the read lock
CollectNoLock(t) ==
    /\ thr[t].pc = "Collect.RLock"
    /\ thr' = [thr EXCEPT
           ![t].pc = IF Len(sites) = 0 THEN "Collect.RUnlock" ELSE "Collect.loop",
           ![t].i = 1,
           ![t].now = Now0]
    /\ UNCHANGED <<sites, mu, versions, opsStarted>>

\* c.mu.RLock() of Collect
CollectRLock(t) ==
    /\ thr[t].pc = "Collect.RLock"
    /\ mu.writer = "none"
    /\ mu' = [mu EXCEPT !.readers = @ \cup {t}]
    /\ thr' = [thr EXCEPT
           ![t].pc = IF Len(sites) = 0 THEN "Collect.RUnlock" ELSE "Collect.loop",
           ![t].i = 1,
           ![t].now = Now0]
    /\ UNCHANGED <<sites, versions, opsStarted>>

\* one iteration of for _, site := range c.sites; now := time.Now()
CollectLoop(t) ==
    /\ thr[t].pc = "Collect.loop"
    /\ LET site == sites[thr[t].i]
       IN  \E order1, order2 \in Perms(DOMAIN site.MetricsData),
              now \in thr[t].now..(Now0 + MaxNowSteps) :
               thr' = [thr EXCEPT
                   ![t].out = @ \o CollectSite(site, order1, order2, now),
                   ![t].now = now,
                   ![t].i = @ + 1,
                   ![t].pc = IF thr[t].i + 1 > Len(sites) THEN "Collect.RUnlock"
                                                          ELSE "Collect.loop"]
    /\ UNCHANGED <<sites, mu, versions, opsStarted>>

\* defer c.mu.RUnlock()
RUnlock(t) ==
    /\ thr[t].pc \in {"GetSites.RUnlock", "Collect.RUnlock"}
    /\ mu' = [mu EXCEPT !.readers = @ \ {t}]
    /\ thr' = [thr EXCEPT ![t] = IdleThread]
    /\ UNCHANGED <<sites, versions, opsStarted>>

NextStore ==
    \/ \E t \in Threads, newSites \in NewSiteLists :
           Call(t, "UpdateSites.Lock", newSites) /\ UNCHANGED <<tickVars, schedVars>>
    \/ \E t \in Threads, accountID \in Accounts, siteName \in Names, metricsData \in NewMetricsMaps :
           Call(t, "UpdateSiteMetrics.Lock", <<accountID, siteName, metricsData>>)
             /\ UNCHANGED <<tickVars, schedVars>>
    \/ \E t \in Threads : Call(t, "GetSites.RLock", << >>) /\ UNCHANGED <<tickVars, schedVars>>
    \/ \E t \in Threads : Call(t, "Collect.RLock", << >>) /\ UNCHANGED <<tickVars, schedVars>>
    \/ \E t \in Threads : UpdateSitesLock(t) /\ UNCHANGED <<tickVars, schedVars>>
    \/ \E t \in Threads : UpdateSiteMetricsLock(t) /\ UNCHANGED <<tickVars, schedVars>>
    \/ \E t \in Threads : Unlock(t) /\ UNCHANGED <<tickVars, schedVars>>
    \/ \E t \in Threads : GetSitesRLock(t) /\ UNCHANGED <<tickVars, schedVars>>
    \/ \E t \in Threads : GetSitesCopyStep(t) /\ UNCHANGED <<tickVars, schedVars>>
    \/ \E t \in Threads : CollectRLock(t) /\ UNCHANGED <<tickVars, schedVars>>
    \/ \E t \in Threads : CollectLoop(t) /\ UNCHANGED <<tickVars, schedVars>>
    \/ \E t \in Threads : RUnlock(t) /\ UNCHANGED <<tickVars, schedVars>>

NoTick ==
    /\ refreshMinutes = 0
    /\ siteIndex = 0
    /\ tickerFireCount = 0
    /\ tasks = {}
    /\ dispatchCount = << >>
    /\ lastDispatch = << >>
    /\ wraps = 0

NoManager ==
    /\ discoveredSites = {}
    /\ accountTokenMap = << >>
    /\ siteLimit = 0
    /\ tokenAccounts = << >>
    /\ preFetchedSites = << >>
    /\ main = << >>
    /\ cycle = << >>
    /\ cycleCount = 0
    /\ report = << >>
    /\ addedCount = << >>
    /\ removedOpen = {}
    /\ removedTwice = FALSE
    /\ firstFetch = << >>
    /\ laterFetch = << >>
    /\ lostSamples = {}

(***************************************************************************)
(* The session manager (SessionManager): a map from machine token to       *)
(* session behind a read-write lock.  A session is identified by the login *)
(* that made it (SessionToken); UserID, which no operation reads, is left  *)
(* out.                                                                    *)
(***************************************************************************)
SmThreads == {"g1", "g2"}
MaxSmCalls == 2      \* session-manager calls one goroutine makes

NilSession == [MachineToken |-> "", SessionToken |-> << >>, Email |-> "", Client |-> "nil"]

Session(machineToken, sessionToken, email, client) ==
    [MachineToken |-> machineToken, SessionToken |-> sessionToken,
     Email |-> email, Client |-> client]

IdleCaller ==
    [pc |-> "idle", op |-> "", machineToken |-> "", session |-> NilSession,
     exists |-> FALSE, ret |-> NilSession, err |-> FALSE, login |-> FALSE, calls |-> 0]

\* NewSessionManager: no session, nobody holds the lock, no call in progress
NoSessions ==
    /\ sessions = << >>
    /\ smMu = NoLock
    /\ smThr = [t \in SmThreads |-> IdleCaller]

NoSched == NoManager /\ NoSessions

InitStoreOnly == InitStore /\ NoTick /\ NoSched

SpecStore == InitStoreOnly /\ [][NextStore]_vars

(***************************************************************************)
(* Claims about the collector, checked under SpecStore.                    *)
(***************************************************************************)
\* a thread has run the body of UpdateSiteMetrics on a site that was present
UpdatedPresentSite(t) ==
    /\ thr[t].pc = "UpdateSiteMetrics.Unlock"
    /\ MatchingSites(thr[t].buf, thr[t].arg[1], thr[t].arg[2]) # {}

\* C1 as claimed: after UpdateSiteMetrics(accountID, siteName, samples) on a site
\* present in the store, the site's sample map is the union of its previous
\* samples and `samples`, the supplied value winning per timestamp.
C1_SamplesAreMerged ==
    \A t \in Threads :
        UpdatedPresentSite(t) =>
            LET i == Min(MatchingSites(thr[t].buf, thr[t].arg[1], thr[t].arg[2]))
                old == thr[t].buf[i].MetricsData
                new == sites[i].MetricsData
            IN  /\ \A k \in DOMAIN thr[t].arg[3] : k \in DOMAIN new /\ new[k] = thr[t].arg[3][k]
                /\ \A k \in DOMAIN old \ DOMAIN thr[t].arg[3] :
                       k \in DOMAIN new /\ new[k] = old[k]

\* C1 as amended: after UpdateSiteMetrics(accountID, siteName, samples) on a site
\* present in the store, the site's sample map is exactly `samples`: every
\* timestamp of `samples` is there with the supplied value, and no timestamp
\* that is not in `samples` is kept.
C1_SamplesAreReplaced ==
    \A t \in Threads :
        UpdatedPresentSite(t) =>
            LET i == Min(MatchingSites(thr[t].buf, thr[t].arg[1], thr[t].arg[2]))
                new == sites[i].MetricsData
            IN  /\ DOMAIN new = DOMAIN thr[t].arg[3]
                /\ \A k \in DOMAIN new : new[k] = thr[t].arg[3][k]

\* the update's case: the site held a timestamp that the new samples lack
C1_Witness ==
    \E t \in Threads :
        /\ UpdatedPresentSite(t)
        /\ LET i == Min(MatchingSites(thr[t].buf, thr[t].arg[1], thr[t].arg[2]))
           IN  /\ DOMAIN thr[t].buf[i].MetricsData \ DOMAIN thr[t].arg[3] # {}
               /\ DOMAIN thr[t].buf[i].MetricsData \cap DOMAIN thr[t].arg[3] # {}

\* C2: the list GetSites returns is a list the store held as a whole at some
\* instant (the one before a concurrent UpdateSites or the one after it), never
\* a mixture of two lists or a part of one.
C2_SnapshotIsWhole ==
    \A t \in Threads :
        thr[t].pc = "GetSites.RUnlock" => thr[t].buf \in versions

\* a GetSites has copied the list while an UpdateSites with another list, of
\* another length, was waiting for the lock
C2_Witness ==
    \E r, w \in Threads :
        /\ thr[r].pc = "GetSites.RUnlock"
        /\ thr[w].pc = "UpdateSites.Lock"
        /\ Len(thr[w].arg) # Len(sites)
        /\ Len(thr[r].buf) > 0

\* the points of thread t's export that carry the labels of site
PointsOf(t, site) ==
    {j \in 1..Len(thr[t].out) : thr[t].out[j].site = SiteKey(site)}

\* the export holds, for the sample under key k of site, one point per metric
\* kind with the sample's value, stamped within [lo, hi]
SampleEmitted(t, site, k, lo, hi) ==
    \A kind \in Range(MetricKinds) :
        /\ Cardinality({j \in PointsOf(t, site) :
               thr[t].out[j].key = k /\ thr[t].out[j].kind = kind}) = 1
        /\ \A j \in PointsOf(t, site) :
               thr[t].out[j].key = k /\ thr[t].out[j].kind = kind =>
                   /\ thr[t].out[j].value = MetricValue(site.MetricsData[k], kind)
                   /\ thr[t].out[j].ts >= lo
                   /\ thr[t].out[j].ts <= hi

AllKeysParse(site) == \A k \in DOMAIN site.MetricsData : ParseIntOk(k)

SitesPerMinuteFloor(totalSites, minutes) == totalSites \div minutes

\* int(math.Ceil(float64(totalSites) / refreshMinutes)), for whole minutes >= 1
SitesPerMinute(totalSites, minutes) == (totalSites + minutes - 1) \div minutes

\* a plausible slip: the cursor is not reset when it is beyond the list
StartIndexKept(index, totalSites) == index

\* if siteIndex >= len(currentSites) { siteIndex = 0 }
StartIndex(index, totalSites) == IF index >= totalSites THEN 0 ELSE index

\* a plausible slip: the batch runs to the end of the list
EndIndexOfList(start, totalSites, minutes) == totalSites

\* endIndex := siteIndex + sitesPerMinute, clamped to len(currentSites)
EndIndex(start, totalSites, minutes) ==
    IF start + SitesPerMinute(totalSites, minutes) > totalSites
    THEN totalSites
    ELSE start + SitesPerMinute(totalSites, minutes)

\* a plausible slip: the slice stops one site early
BatchShort(currentSites, index, minutes) ==
    LET start == StartIndex(index, Len(currentSites))
    IN  (start + 1)..(EndIndex(start, Len(currentSites), minutes) - 1)

\* the positions of sitesToProcess
Batch(currentSites, index, minutes) ==
    LET start == StartIndex(index, Len(currentSites))
    IN  (start + 1)..EndIndex(start, Len(currentSites), minutes)

\* the full cycle is complete: the cursor goes back to 0
CycleComplete(currentSites, index, minutes) ==
    EndIndex(StartIndex(index, Len(currentSites)), Len(currentSites), minutes)
        >= Len(currentSites)

\* siteIndex after the tick
NextIndex(currentSites, index, minutes) ==
    IF CycleComplete(currentSites, index, minutes) THEN 0
    ELSE EndIndex(StartIndex(index, Len(currentSites)), Len(currentSites), minutes)

\* go rm.refreshSiteMetrics(site.Account, site.SiteName, site.SiteID)
NewTask(site) ==
    [accountID |-> site.Account, siteName |-> site.SiteName, pc |-> "spawned",
     duration |-> ""]

\* a plausible slip (the loop of an earlier revision): with an empty store the
\* loop ends instead of waiting for the next tick
TickEndsWhenEmpty ==
    /\ Len(GetSites(sites)) > 0
    /\ tickerFireCount < MaxTicks
    /\ tickerFireCount' = tickerFireCount + 1
    /\ LET currentSites == GetSites(sites)
       IN  /\ tasks' = tasks \cup
                   {NewTask(currentSites[i]) :
                        i \in Batch(currentSites, siteIndex, refreshMinutes)}
           /\ siteIndex' = NextIndex(currentSites, siteIndex, refreshMinutes)
    /\ UNCHANGED refreshMinutes

\* a plausible slip: the loop waits for the tasks it dispatched (a WaitGroup)
TickWaitsForTasks ==
    /\ tasks = {}
    /\ tickerFireCount < MaxTicks
    /\ tickerFireCount' = tickerFireCount + 1
    /\ LET currentSites == GetSites(sites)
       IN  IF Len(currentSites) = 0
           THEN UNCHANGED <<siteIndex, tasks>>
           ELSE /\ tasks' = tasks \cup
                       {NewTask(currentSites[i]) :
                            i \in Batch(currentSites, siteIndex, refreshMinutes)}
                /\ siteIndex' = NextIndex(currentSites, siteIndex, refreshMinutes)
    /\ UNCHANGED refreshMinutes

Tick ==
    /\ tickerFireCount < MaxTicks
    /\ tickerFireCount' = tickerFireCount + 1
    /\ LET currentSites == GetSites(sites)
       IN  IF Len(currentSites) = 0
           THEN UNCHANGED <<siteIndex, tasks>>
           ELSE /\ tasks' = tasks \cup
                       {NewTask(currentSites[i]) :
                            i \in Batch(currentSites, siteIndex, refreshMinutes)}
                /\ siteIndex' = NextIndex(currentSites, siteIndex, refreshMinutes)
    /\ UNCHANGED refreshMinutes

(***************************************************************************)
(* SpecTick: the refresh loop alone over a list of N sites that does not   *)
(* change, for N in 1..MaxN and intervals of 1..MaxD minutes, and for the  *)
(* README's example of 100 sites and a 60-minute interval.  The history    *)
(* variables count, per site, the dispatches and the tick of the last one. *)
(***************************************************************************)
ExampleSites == 100
ExampleMinutes == 60

NumberedSites(n) == [i \in 1..n |-> SiteMetrics("a1", i, NoMetrics)]

InitTick ==
    /\ \E nd \in ((1..MaxN) \X (1..MaxD)) \cup {<<ExampleSites, ExampleMinutes>>} :
           /\ sites = NumberedSites(nd[1])
           /\ refreshMinutes = nd[2]
    /\ siteIndex = 0
    /\ tickerFireCount = 0
    /\ tasks = {}
    /\ dispatchCount = [i \in 1..Len(sites) |-> 0]
    /\ lastDispatch = [i \in 1..Len(sites) |-> 0]
    /\ wraps = 0
    /\ mu = NoLock
    /\ thr = [t \in Threads |-> IdleThread]
    /\ versions = {}
    /\ opsStarted = 0
    /\ NoSched

TickObserved ==
    /\ Tick
    /\ dispatchCount' =
           [i \in 1..Len(sites) |->
               IF i \in Batch(sites, siteIndex, refreshMinutes)
               THEN dispatchCount[i] + 1 ELSE dispatchCount[i]]
    /\ lastDispatch' =
           [i \in 1..Len(sites) |->
               IF i \in Batch(sites, siteIndex, refreshMinutes)
               THEN tickerFireCount' ELSE lastDispatch[i]]
    /\ wraps' = IF CycleComplete(sites, siteIndex, refreshMinutes) THEN wraps + 1 ELSE wraps
    /\ UNCHANGED <<storeVars, schedVars>>

SpecTick == InitTick /\ [][TickObserved]_vars

\* C6: with 100 unchanging sites and a 60-minute interval the batch size is
\* ceil(100/60) = 2, and after exactly 50 ticks every site has been dispatched
\* exactly once and the cursor has wrapped to 0 exactly once.
C6_HundredSitesInFiftyTicks ==
    (Len(sites) = ExampleSites /\ refreshMinutes = ExampleMinutes) =>
        /\ Cardinality(Batch(sites, siteIndex, refreshMinutes)) = 2
        /\ tickerFireCount < 50 => wraps = 0
        /\ tickerFireCount = 50 =>
             /\ \A i \in 1..Len(sites) : dispatchCount[i] = 1
             /\ wraps = 1
             /\ siteIndex = 0

\* the example, after its fiftieth tick
C6_Witness ==
    /\ Len(sites) = ExampleSites
    /\ refreshMinutes = ExampleMinutes
    /\ tickerFireCount = 50
    /\ Cardinality(tasks) = ExampleSites

\* C7: for an unchanging list of N >= 1 sites and an interval of D >= 1 whole
\* minutes, every window of D consecutive ticks dispatches every site at least
\* once: after tick t >= D, each site's last dispatch is one of the ticks
\* t-D+1 .. t.
C7_EverySiteWithinInterval ==
    tickerFireCount >= refreshMinutes =>
        \A i \in 1..Len(sites) : lastDispatch[i] > tickerFireCount - refreshMinutes

\* a window that ends after the cursor wrapped twice, over a list whose last
\* batch is shorter than the others
C7_Witness ==
    /\ tickerFireCount >= refreshMinutes
    /\ wraps >= 2
    /\ SitesPerMinute(Len(sites), refreshMinutes) > 1
    /\ Len(sites) % SitesPerMinute(Len(sites), refreshMinutes) # 0

(***************************************************************************)
(* The refresh manager.  The environment: two tokens that authenticate as  *)
(* two accounts; what the upstream returns for a site list (in the order   *)
(* the Go map is iterated) and for a metrics fetch; any call may fail.     *)
(***************************************************************************)
MaxRounds == 3       \* Spec: discovery cycles started plus ticks of the refresh loop
MaxSchedTicks == 1   \* Spec: ticks of the refresh loop

Tokens == <<"tok1", "tok2">>

\* client.Authenticate(ctx, token), when it succeeds
AccountOf(token) == tokenAccounts[token]

\* one account per token
DistinctAccounts == ("tok1" :> "a1") @@ ("tok2" :> "a2")

\* client.FetchAllSites(ctx, token), when it succeeds: the names, in iteration order
Listings(accountID) ==
    IF accountID = "a1" THEN {<<"s1">>, <<"s2", "s1">>} ELSE {<<"s1">>}

Listed(names) == [ok |-> TRUE, names |-> names]
NoListing == [ok |-> FALSE, names |-> << >>]

\* the command lines: -siteLimit and -refreshInterval
Configs == {[siteLimit |-> 0, refreshMinutes |-> 2], [siteLimit |-> 2, refreshMinutes |-> 1]}

RefreshMetricsDuration == "1d"
InitialMetricsDuration == "28d"

D6 == K3 :> SampleB

\* client.FetchMetricsData(..., duration), when it succeeds
FetchMetricsData(duration) == IF duration = InitialMetricsDuration THEN {D3} ELSE {D6}

\* for _, site := range sites { key := site.Account + ":" + site.SiteName; m[key] = true }
buildSiteKeyMap(list) == {SiteKey(list[i]) : i \in 1..Len(list)}

\* CollectAllSiteLists, one account: a record with no samples per listed site,
\* stopping when the limit is reached
RECURSIVE ListAccount(_, _, _, _, _)
ListAccount(all, accountID, names, i, limit) ==
    IF i > Len(names) THEN all
    ELSE LET next == Append(all, SiteMetrics(accountID, names[i], NoMetrics))
         IN  IF limit > 0 /\ Len(next) >= limit THEN next
             ELSE ListAccount(next, accountID, names, i + 1, limit)

\* CollectAllSiteLists: outcomes[i] is what the upstream answered for Tokens[i];
\* acc is [sites: allSiteMetrics, data: tokenSiteData]
RECURSIVE CollectAllSiteLists(_, _, _, _)
CollectAllSiteLists(outcomes, tokenIdx, acc, limit) ==
    IF tokenIdx > Len(Tokens) THEN acc
    ELSE IF ~outcomes[tokenIdx].ok THEN CollectAllSiteLists(outcomes, tokenIdx + 1, acc, limit)
    ELSE LET all == ListAccount(acc.sites, AccountOf(Tokens[tokenIdx]),
                                outcomes[tokenIdx].names, 1, limit)
             next == [sites |-> all,
                      data |-> [acc.data EXCEPT ![Tokens[tokenIdx]] = outcomes[tokenIdx]]]
         IN  IF limit > 0 /\ Len(all) >= limit THEN next
             ELSE CollectAllSiteLists(outcomes, tokenIdx + 1, next, limit)

NothingLoaded == [sites |-> << >>, data |-> [t \in Range(Tokens) |-> NoListing]]

StartupOutcomes(token) == {NoListing} \cup {Listed(l) : l \in Listings(AccountOf(token))}

\* rm.discoveredSites after InitializeDiscoveredSites
InitializeDiscoveredSites(discovered, list) == discovered \cup buildSiteKeyMap(list)

IdleCycle ==
    [pc |-> "idle", existingSites |-> << >>, tok |-> 0, allSiteMetrics |-> << >>,
     newSitesMap |-> {}, discoveredBefore |-> {}]

NoReport == [existingKeys |-> {}, added |-> {}, removed |-> {}, logged |-> FALSE]

(***************************************************************************)
(* The state when main has built the collector from the start-up site      *)
(* lists, started the manager and filled the discovered-sites map          *)
(* (main.go lines 52-69).  The loops that Start() launched wait for their  *)
(* tickers, whose first firing is a whole interval (a minute or more)      *)
(* away, while InitializeDiscoveredSites only reads memory; main goes on   *)
(* with InitializeAccountTokenMap, which calls the upstream and runs in    *)
(* the model side by side with the loops.                                  *)
(***************************************************************************)
InitSched ==
    /\ tokenAccounts = DistinctAccounts
    /\ NoSessions
    /\ \E config \in Configs,
          o1 \in StartupOutcomes(Tokens[1]), o2 \in StartupOutcomes(Tokens[2]) :
           LET loaded == CollectAllSiteLists(<<o1, o2>>, 1, NothingLoaded, config.siteLimit)
           IN  /\ siteLimit = config.siteLimit
               /\ refreshMinutes = config.refreshMinutes
               /\ sites = loaded.sites
               /\ preFetchedSites = loaded.data
               /\ discoveredSites = InitializeDiscoveredSites({}, loaded.sites)
    /\ accountTokenMap = << >>
    /\ main = [pc |-> "InitializeAccountTokenMap", tok |-> 1, done |-> {}, count |-> 0]
    /\ cycle = IdleCycle
    /\ cycleCount = 0
    /\ report = NoReport
    /\ addedCount = [k \in StoreKeys |-> 0]
    /\ removedOpen = {}
    /\ removedTwice = FALSE
    /\ firstFetch = [k \in StoreKeys |-> "none"]
    /\ laterFetch = [k \in StoreKeys |-> {}]
    /\ lostSamples = {}
    /\ siteIndex = 0
    /\ tickerFireCount = 0
    /\ tasks = {}
    /\ dispatchCount = << >>
    /\ lastDispatch = << >>
    /\ wraps = 0
    /\ mu = NoLock
    /\ thr = [t \in Threads |-> IdleThread]
    /\ versions = {}
    /\ opsStarted = 0

lockVars == <<mu, thr, versions, opsStarted>>
tickHistory == <<dispatchCount, lastDispatch, wraps>>
cycleHistory == <<cycleCount, report, addedCount, removedOpen, removedTwice>>
fetchHistory == <<firstFetch, laterFetch>>

\* the samples of the site with this key, in a list where the key occurs once
SamplesOf(list, key) ==
    list[CHOOSE i \in 1..Len(list) : SiteKey(list[i]) = key].MetricsData

\* the keys that are in both lists and hold fewer timestamps in the second
LosingKeys(old, new) ==
    {key \in buildSiteKeyMap(old) \cap buildSiteKeyMap(new) :
        ~(DOMAIN SamplesOf(old, key) \subseteq DOMAIN SamplesOf(new, key))}

(***************************************************************************)
(* main: InitializeAccountTokenMap, then the start-up metrics collection   *)
(* (CollectAllMetricsWithSites with the callback that calls                *)
(* UpdateSiteMetrics as each site's metrics arrive).                       *)
(***************************************************************************)
\* main after it is done with token number tok of the loop it is in
NextToken(m) ==
    IF m.tok < Len(Tokens) THEN [m EXCEPT !.tok = @ + 1, !.done = {}]
    ELSE IF m.pc = "InitializeAccountTokenMap"
         THEN [pc |-> "CollectAllMetricsWithSites", tok |-> 1, done |-> {}, count |-> 0]
         ELSE [m EXCEPT !.pc = "done", !.done = {}]

\* rm.accountTokenMap[accountID] = token
SetToken(map, token) == (AccountOf(token) :> token) @@ map

InitTokenOk ==
    /\ main.pc = "InitializeAccountTokenMap"
    /\ accountTokenMap' = SetToken(accountTokenMap, Tokens[main.tok])
    /\ main' = NextToken(main)
    /\ UNCHANGED <<sites, lockVars, tickVars, discoveredSites, siteLimit, tokenAccounts, sessionVars, preFetchedSites,
                   cycle, cycleHistory, fetchHistory, lostSamples>>

\* Authenticate fails: the token is skipped
InitTokenFail ==
    /\ main.pc = "InitializeAccountTokenMap"
    /\ main' = NextToken(main)
    /\ UNCHANGED <<sites, lockVars, tickVars, discoveredSites, accountTokenMap, siteLimit, tokenAccounts, sessionVars,
                   preFetchedSites, cycle, cycleHistory, fetchHistory, lostSamples>>

\* the names of the current token's start-up listing not yet processed
Remaining == Range(preFetchedSites[Tokens[main.tok]].names) \ main.done

\* siteLimit > 0 && currentCount+len(siteMetrics) >= siteLimit
CollectLimitReached == siteLimit > 0 /\ main.count >= siteLimit

\* no pre-fetched site data for this token: skipping
CollectSkipToken ==
    /\ main.pc = "CollectAllMetricsWithSites"
    /\ ~preFetchedSites[Tokens[main.tok]].ok
    /\ main' = NextToken(main)
    /\ UNCHANGED <<sites, lockVars, tickVars, discoveredSites, accountTokenMap, siteLimit, tokenAccounts, sessionVars,
                   preFetchedSites, cycle, cycleHistory, fetchHistory, lostSamples>>

\* one site of the account: the 28d fetch succeeds and the callback stores it
CollectFetchOk(siteName, metricsData) ==
    /\ main.pc = "CollectAllMetricsWithSites"
    /\ preFetchedSites[Tokens[main.tok]].ok
    /\ ~CollectLimitReached
    /\ siteName \in Remaining
    /\ sites' = UpdateSiteMetrics(sites, AccountOf(Tokens[main.tok]), siteName, metricsData)
    /\ main' = [main EXCEPT !.done = @ \cup {siteName}, !.count = @ + 1]
    /\ lostSamples' = lostSamples \cup LosingKeys(sites, sites')
    /\ UNCHANGED <<lockVars, tickVars, discoveredSites, accountTokenMap, siteLimit, tokenAccounts, sessionVars,
                   preFetchedSites, cycle, cycleHistory, fetchHistory>>

\* one site of the account: the fetch fails
CollectFetchFail(siteName) ==
    /\ main.pc = "CollectAllMetricsWithSites"
    /\ preFetchedSites[Tokens[main.tok]].ok
    /\ ~CollectLimitReached
    /\ siteName \in Remaining
    /\ main' = [main EXCEPT !.done = @ \cup {siteName}]
    /\ UNCHANGED <<sites, lockVars, tickVars, discoveredSites, accountTokenMap, siteLimit, tokenAccounts, sessionVars,
                   preFetchedSites, cycle, cycleHistory, fetchHistory, lostSamples>>

\* the account's loop ends: all its sites processed, or the limit reached
CollectAccountDone ==
    /\ main.pc = "CollectAllMetricsWithSites"
    /\ preFetchedSites[Tokens[main.tok]].ok
    /\ CollectLimitReached \/ Remaining = {}
    /\ main' = IF CollectLimitReached THEN [main EXCEPT !.pc = "done", !.done = {}]
               ELSE NextToken(main)
    /\ UNCHANGED <<sites, lockVars, tickVars, discoveredSites, accountTokenMap, siteLimit, tokenAccounts, sessionVars,
                   preFetchedSites, cycle, cycleHistory, fetchHistory, lostSamples>>

(***************************************************************************)
(* The refresh loop's tick and the per-site tasks (refreshSiteMetrics).    *)
(* Tasks for the same site in the same position are one element of tasks.  *)
(***************************************************************************)
TickSched ==
    /\ tickerFireCount < MaxSchedTicks
    /\ cycleCount + tickerFireCount < MaxRounds
    /\ Tick
    /\ UNCHANGED <<storeVars, tickHistory, schedVars>>

\* duration := RefreshMetricsDuration; if !rm.discoveredSites[key] { duration = Initial... }
RefreshDuration(discovered, key) ==
    IF key \notin discovered THEN InitialMetricsDuration ELSE RefreshMetricsDuration

TaskKey(task) == <<task.accountID, task.siteName>>

\* a plausible slip: the missing token is not noticed and the fetch goes ahead
TaskNoTokenFetches(task) ==
    /\ task.pc = "spawned"
    /\ task.accountID \notin DOMAIN accountTokenMap
    /\ tasks' = (tasks \ {task}) \cup
                   {[task EXCEPT !.pc = "fetching", !.duration = RefreshMetricsDuration]}
    /\ UNCHANGED <<storeVars, refreshMinutes, siteIndex, tickerFireCount, tickHistory,
                   schedVars>>

\* token, ok := rm.accountTokenMap[accountID]; !ok: warning, return
TaskNoToken(task) ==
    /\ task.pc = "spawned"
    /\ task.accountID \notin DOMAIN accountTokenMap
    /\ tasks' = tasks \ {task}
    /\ UNCHANGED <<storeVars, refreshMinutes, siteIndex, tickerFireCount, tickHistory,
                   schedVars>>

\* the token is found, the window chosen, the key marked as discovered
TaskStart(task) ==
    /\ task.pc = "spawned"
    /\ task.accountID \in DOMAIN accountTokenMap
    /\ LET duration == RefreshDuration(discoveredSites, TaskKey(task))
       IN  /\ tasks' = (tasks \ {task}) \cup
                          {[task EXCEPT !.pc = "fetching", !.duration = duration]}
           /\ firstFetch' = IF firstFetch[TaskKey(task)] = "none"
                            THEN [firstFetch EXCEPT ![TaskKey(task)] = duration]
                            ELSE firstFetch
           /\ laterFetch' = IF firstFetch[TaskKey(task)] = "none" THEN laterFetch
                            ELSE [laterFetch EXCEPT ![TaskKey(task)] = @ \cup {duration}]
    /\ discoveredSites' = discoveredSites \cup {TaskKey(task)}
    /\ UNCHANGED <<storeVars, refreshMinutes, siteIndex, tickerFireCount, tickHistory,
                   accountTokenMap, siteLimit, tokenAccounts, sessionVars, preFetchedSites, main, cycle, cycleHistory,
                   lostSamples>>

\* FetchMetricsData succeeds: rm.collector.UpdateSiteMetrics(accountID, siteName, metricsData)
TaskFetchOk(task, metricsData) ==
    /\ task.pc = "fetching"
    /\ metricsData \in FetchMetricsData(task.duration)
    /\ sites' = UpdateSiteMetrics(sites, task.accountID, task.siteName, metricsData)
    /\ tasks' = tasks \ {task}
    /\ lostSamples' = lostSamples \cup LosingKeys(sites, sites')
    /\ UNCHANGED <<lockVars, refreshMinutes, siteIndex, tickerFireCount, tickHistory,
                   discoveredSites, accountTokenMap, siteLimit, tokenAccounts, sessionVars, preFetchedSites, main, cycle,
                   cycleHistory, fetchHistory>>

\* a plausible slip: a failed fetch empties the site's samples
TaskFetchFailClears(task) ==
    /\ task.pc = "fetching"
    /\ tasks' = tasks \ {task}
    /\ sites' = UpdateSiteMetrics(sites, task.accountID, task.siteName, NoMetrics)
    /\ UNCHANGED <<lockVars, refreshMinutes, siteIndex, tickerFireCount, tickHistory,
                   schedVars>>

\* FetchMetricsData fails: warning, return
TaskFetchFail(task) ==
    /\ task.pc = "fetching"
    /\ tasks' = tasks \ {task}
    /\ UNCHANGED <<storeVars, refreshMinutes, siteIndex, tickerFireCount, tickHistory,
                   schedVars>>

(***************************************************************************)
(* refreshAllSiteLists: a discovery cycle.  It takes a snapshot of the     *)
(* store, asks the upstream for each token's sites (one step per token),   *)
(* and at the end compares, marks, and replaces the store.  Cycles run one *)
(* after the other (refreshSiteListsPeriodically calls them in its loop).  *)
(***************************************************************************)
\* existingMetricsMap[key] = existingSites[i].MetricsData, for i in order
ExistingMetricsMap(existingSites) ==
    [key \in buildSiteKeyMap(existingSites) |->
        existingSites[Max({i \in 1..Len(existingSites) : SiteKey(existingSites[i]) = key})]
            .MetricsData]

\* a plausible slip: every listed site starts with a fresh empty map
FreshMetrics(existingMetricsMap, key) == NoMetrics

\* metricsData := existingMetricsMap[key]; if metricsData == nil { metricsData = make(...) }
AttachMetrics(existingMetricsMap, key) ==
    IF key \in DOMAIN existingMetricsMap THEN existingMetricsMap[key] ELSE NoMetrics

\* a plausible slip: the limit is tested with > instead of >=
RECURSIVE ListSitesOneMore(_, _, _, _, _, _)
ListSitesOneMore(all, accountID, names, i, existingMetricsMap, limit) ==
    IF i > Len(names) \/ (limit > 0 /\ Len(all) > limit) THEN all
    ELSE ListSitesOneMore(Append(all, SiteMetrics(accountID, names[i],
                               AttachMetrics(existingMetricsMap, <<accountID, names[i]>>))),
                   accountID, names, i + 1, existingMetricsMap, limit)

\* for siteID, site := range siteList { limit check; append }
RECURSIVE ListSites(_, _, _, _, _, _)
ListSites(all, accountID, names, i, existingMetricsMap, limit) ==
    IF i > Len(names) \/ (limit > 0 /\ Len(all) >= limit) THEN all
    ELSE ListSites(Append(all, SiteMetrics(accountID, names[i],
                               AttachMetrics(existingMetricsMap, <<accountID, names[i]>>))),
                   accountID, names, i + 1, existingMetricsMap, limit)

\* a plausible slip: the discovered-sites map is not consulted
findAddedSitesNotInStore(currentSites, newSites, discovered) == newSites \ currentSites

\* keys of newSites with !currentSites[key] && !discoveredSites[key]
findAddedSites(currentSites, newSites, discovered) ==
    {key \in newSites : key \notin currentSites /\ key \notin discovered}

\* a plausible slip: the two maps swapped
findRemovedSitesSwapped(currentSites, newSites) ==
    {key \in newSites : key \notin currentSites}

\* keys of currentSites with !newSites[key]
findRemovedSites(currentSites, newSites) == {key \in currentSites : key \notin newSites}

\* the ticker fires: existingSites := rm.collector.GetSites()
CycleStart ==
    /\ cycle.pc = "idle"
    /\ cycleCount + tickerFireCount < MaxRounds
    /\ cycle' = [pc |-> "listing", existingSites |-> GetSites(sites), tok |-> 1,
                 allSiteMetrics |-> << >>, newSitesMap |-> {},
                 discoveredBefore |-> discoveredSites]
    /\ cycleCount' = cycleCount + 1
    /\ UNCHANGED <<storeVars, tickVars, discoveredSites, accountTokenMap, siteLimit, tokenAccounts, sessionVars,
                   preFetchedSites, main, report, addedCount, removedOpen, removedTwice,
                   fetchHistory, lostSamples>>

CycleAtToken == cycle.pc = "listing" /\ cycle.tok <= Len(Tokens)

\* rm.siteLimit > 0 && len(allSiteMetrics) >= rm.siteLimit
CycleLimitReached == siteLimit > 0 /\ Len(cycle.allSiteMetrics) >= siteLimit

\* site limit reached before a token: break
CycleSiteLimit ==
    /\ CycleAtToken
    /\ CycleLimitReached
    /\ cycle' = [cycle EXCEPT !.tok = Len(Tokens) + 1]
    /\ UNCHANGED <<storeVars, tickVars, discoveredSites, accountTokenMap, siteLimit, tokenAccounts, sessionVars,
                   preFetchedSites, main, cycleHistory, fetchHistory, lostSamples>>

\* a plausible slip: a rejected credential takes its account out of the token map
CycleAuthFailInvalidates ==
    /\ CycleAtToken
    /\ ~CycleLimitReached
    /\ cycle' = [cycle EXCEPT !.tok = @ + 1]
    /\ accountTokenMap' = [a \in DOMAIN accountTokenMap \ {AccountOf(Tokens[cycle.tok])} |->
                              accountTokenMap[a]]
    /\ UNCHANGED <<storeVars, tickVars, discoveredSites, siteLimit, tokenAccounts, sessionVars,
                   preFetchedSites, main, cycleHistory, fetchHistory, lostSamples>>

\* Authenticate fails: continue
CycleAuthFail ==
    /\ CycleAtToken
    /\ ~CycleLimitReached
    /\ cycle' = [cycle EXCEPT !.tok = @ + 1]
    /\ UNCHANGED <<storeVars, tickVars, discoveredSites, accountTokenMap, siteLimit, tokenAccounts, sessionVars,
                   preFetchedSites, main, cycleHistory, fetchHistory, lostSamples>>

\* Authenticate succeeds, FetchAllSites fails: continue
CycleFetchFail ==
    /\ CycleAtToken
    /\ ~CycleLimitReached
    /\ accountTokenMap' = SetToken(accountTokenMap, Tokens[cycle.tok])
    /\ cycle' = [cycle EXCEPT !.tok = @ + 1]
    /\ UNCHANGED <<storeVars, tickVars, discoveredSites, siteLimit, tokenAccounts, sessionVars, preFetchedSites, main,
                   cycleHistory, fetchHistory, lostSamples>>

\* both succeed: the account's sites are appended, with the samples they had
CycleList(names) ==
    /\ CycleAtToken
    /\ ~CycleLimitReached
    /\ names \in Listings(AccountOf(Tokens[cycle.tok]))
    /\ accountTokenMap' = SetToken(accountTokenMap, Tokens[cycle.tok])
    /\ LET all == ListSites(cycle.allSiteMetrics, AccountOf(Tokens[cycle.tok]), names, 1,
                            ExistingMetricsMap(cycle.existingSites), siteLimit)
       IN  cycle' = [cycle EXCEPT !.tok = @ + 1, !.allSiteMetrics = all,
                                  !.newSitesMap = @ \cup buildSiteKeyMap(all)]
    /\ UNCHANGED <<storeVars, tickVars, discoveredSites, siteLimit, tokenAccounts, sessionVars, preFetchedSites, main,
                   cycleHistory, fetchHistory, lostSamples>>

\* a plausible slip: the store is replaced also when nothing was listed
CycleFinishAlwaysUpdates ==
    /\ cycle.pc = "listing"
    /\ cycle.tok > Len(Tokens)
    /\ LET currentSitesMap == buildSiteKeyMap(cycle.existingSites)
           added == findAddedSites(currentSitesMap, cycle.newSitesMap, discoveredSites)
           removed == findRemovedSites(currentSitesMap, cycle.newSitesMap)
           logged == Len(cycle.allSiteMetrics) > 0
       IN  /\ discoveredSites' = discoveredSites \cup added
           /\ sites' = UpdateSites(sites, cycle.allSiteMetrics)
           /\ report' = [existingKeys |-> currentSitesMap,
                         added |-> IF logged THEN added ELSE {},
                         removed |-> IF logged THEN removed ELSE {},
                         logged |-> logged]
           /\ addedCount' = [k \in StoreKeys |->
                                IF logged /\ k \in added THEN addedCount[k] + 1
                                ELSE addedCount[k]]
           /\ removedTwice' = (removedTwice \/ (logged /\ removed \cap removedOpen # {}))
           /\ removedOpen' = ((IF logged THEN removedOpen \cup removed ELSE removedOpen)
                                \ cycle.newSitesMap)
    /\ lostSamples' = lostSamples \cup LosingKeys(sites, sites')
    /\ cycle' = IdleCycle
    /\ UNCHANGED <<lockVars, tickVars, accountTokenMap, siteLimit, tokenAccounts, sessionVars,
                   preFetchedSites, main, cycleCount, fetchHistory>>

\* a plausible slip: the marks of the removed sites are deleted
CycleFinishForgetsRemoved ==
    /\ cycle.pc = "listing"
    /\ cycle.tok > Len(Tokens)
    /\ LET currentSitesMap == buildSiteKeyMap(cycle.existingSites)
           added == findAddedSites(currentSitesMap, cycle.newSitesMap, discoveredSites)
           removed == findRemovedSites(currentSitesMap, cycle.newSitesMap)
           logged == Len(cycle.allSiteMetrics) > 0
       IN  /\ discoveredSites' = (discoveredSites \cup added) \ removed
           /\ sites' = IF logged THEN UpdateSites(sites, cycle.allSiteMetrics) ELSE sites
           /\ report' = [existingKeys |-> currentSitesMap,
                         added |-> IF logged THEN added ELSE {},
                         removed |-> IF logged THEN removed ELSE {},
                         logged |-> logged]
           /\ addedCount' = [k \in StoreKeys |->
                                IF logged /\ k \in added THEN addedCount[k] + 1
                                ELSE addedCount[k]]
           /\ removedTwice' = (removedTwice \/ (logged /\ removed \cap removedOpen # {}))
           /\ removedOpen' = ((IF logged THEN removedOpen \cup removed ELSE removedOpen)
                                \ cycle.newSitesMap)
    /\ lostSamples' = lostSamples \cup LosingKeys(sites, sites')
    /\ cycle' = IdleCycle
    /\ UNCHANGED <<lockVars, tickVars, accountTokenMap, siteLimit, tokenAccounts, sessionVars,
                   preFetchedSites, main, cycleCount, fetchHistory>>

\* after the last token: added and removed sites, the marks, the replacement
CycleFinish ==
    /\ cycle.pc = "listing"
    /\ cycle.tok > Len(Tokens)
    /\ LET currentSitesMap == buildSiteKeyMap(cycle.existingSites)
           added == findAddedSites(currentSitesMap, cycle.newSitesMap, discoveredSites)
           removed == findRemovedSites(currentSitesMap, cycle.newSitesMap)
           logged == Len(cycle.allSiteMetrics) > 0
       IN  /\ discoveredSites' = discoveredSites \cup added
           /\ sites' = IF logged THEN UpdateSites(sites, cycle.allSiteMetrics) ELSE sites
           /\ report' = [existingKeys |-> currentSitesMap,
                         added |-> IF logged THEN added ELSE {},
                         removed |-> IF logged THEN removed ELSE {},
                         logged |-> logged]
           /\ addedCount' = [k \in StoreKeys |->
                                IF logged /\ k \in added THEN addedCount[k] + 1
                                ELSE addedCount[k]]
           /\ removedTwice' = (removedTwice \/ (logged /\ removed \cap removedOpen # {}))
           /\ removedOpen' = ((IF logged THEN removedOpen \cup removed ELSE removedOpen)
                                \ cycle.newSitesMap)
    /\ lostSamples' = lostSamples \cup LosingKeys(sites, sites')
    /\ cycle' = IdleCycle
    /\ UNCHANGED <<lockVars, tickVars, accountTokenMap, siteLimit, tokenAccounts, sessionVars, preFetchedSites, main,
                   cycleCount, fetchHistory>>

Next ==
    \/ InitTokenOk
    \/ InitTokenFail
    \/ CollectSkipToken
    \/ \E siteName \in Names, metricsData \in FetchMetricsData(InitialMetricsDuration) :
           CollectFetchOk(siteName, metricsData)
    \/ \E siteName \in Names : CollectFetchFail(siteName)
    \/ CollectAccountDone
    \/ TickSched
    \/ \E task \in tasks : TaskNoToken(task)
    \/ \E task \in tasks : TaskStart(task)
    \/ \E task \in tasks, metricsData \in FetchMetricsData(RefreshMetricsDuration)
                                         \cup FetchMetricsData(InitialMetricsDuration) :
           TaskFetchOk(task, metricsData)
    \/ \E task \in tasks : TaskFetchFail(task)
    \/ CycleStart
    \/ CycleSiteLimit
    \/ CycleAuthFail
    \/ CycleFetchFail
    \/ \E names \in Listings("a1") \cup Listings("a2") : CycleList(names)
    \/ CycleFinish

Spec == InitSched /\ [][Next]_vars

(***************************************************************************)
(* Claims about the refresh manager, checked under Spec.                   *)
(***************************************************************************)
\* the step in which a discovery cycle ends
CycleEnds == cycle.pc = "listing" /\ cycle'.pc = "idle"

\* C3: every key that a discovery cycle lists and that was not in the
\* discovered-sites map when the cycle began is logged as added by that cycle,
\* and no key is logged as added more than once, also when it was missing from
\* one cycle and is listed again by a later one.
C3_AddedOnceWhenNew ==
    [][CycleEnds =>
          /\ \A k \in cycle.newSitesMap \ cycle.discoveredBefore :
                 k \in report'.added /\ addedCount'[k] = addedCount[k] + 1
          /\ \A k \in StoreKeys : addedCount'[k] <= 1]_vars

\* a key that a cycle added, that a later cycle dropped from the store, and that
\* the last cycle listed again without logging it as added
C3_Witness ==
    /\ cycle.pc = "idle"
    /\ report.logged
    /\ \E k \in buildSiteKeyMap(sites) :
           /\ addedCount[k] = 1
           /\ k \notin report.existingKeys
           /\ k \notin report.added

\* C4 as stated: every key in the store when a discovery cycle begins and absent
\* from what the cycle lists is logged as removed by that cycle, and not again
\* by a later cycle unless it was listed in between.
C4_RemovedWhenAbsent ==
    [][CycleEnds =>
          /\ \A k \in buildSiteKeyMap(cycle.existingSites) \ cycle.newSitesMap :
                 k \in report'.removed
          /\ ~removedTwice']_vars

\* C4, amended: the same, for the discovery cycles that list at least one site;
\* such a cycle replaces the store, which then holds none of the removed keys.
\* (A cycle that lists no site logs nothing and leaves the store as it is.)
C4_RemovedWhenAbsentAndListed ==
    [][(CycleEnds /\ Len(cycle.allSiteMetrics) > 0) =>
          /\ \A k \in buildSiteKeyMap(cycle.existingSites) \ cycle.newSitesMap :
                 k \in report'.removed
          /\ report'.removed \cap buildSiteKeyMap(sites') = {}
          /\ ~removedTwice']_vars

\* a cycle logged a key as removed, and a later cycle that listed sites, but not
\* that key, did not log it again
C4_Witness ==
    /\ cycle.pc = "idle"
    /\ report.logged
    /\ \E k \in removedOpen : k \notin report.removed

\* C8: the first per-site refresh of a key asks for the 28d window and every
\* later refresh of it for the 1d window.
C8_FirstRefreshBackfills ==
    \A k \in StoreKeys : firstFetch[k] \in {"none", InitialMetricsDuration}
                           /\ laterFetch[k] \subseteq {RefreshMetricsDuration}

\* C9: when a discovery cycle replaces the store, every site whose key was in
\* the store when the cycle began holds exactly the samples it held then, and
\* every other site has no samples.
C9_CycleKeepsSamples ==
    [][(CycleEnds /\ Len(cycle.allSiteMetrics) > 0) =>
          /\ buildSiteKeyMap(sites') = cycle.newSitesMap
          /\ \A i \in 1..Len(sites') :
                 sites'[i].MetricsData =
                     IF SiteKey(sites'[i]) \in buildSiteKeyMap(cycle.existingSites)
                     THEN SamplesOf(cycle.existingSites, SiteKey(sites'[i]))
                     ELSE NoMetrics]_vars

\* the last cycle replaced the store; one site was there before and holds
\* samples, another is listed for the first time and holds none
C9_Witness ==
    /\ cycle.pc = "idle"
    /\ report.logged
    /\ \E k \in buildSiteKeyMap(sites) \cap report.existingKeys :
           SamplesOf(sites, k) # NoMetrics
    /\ \E k \in buildSiteKeyMap(sites) \ report.existingKeys :
           SamplesOf(sites, k) = NoMetrics

C11_NoTokenNoFetch ==
    [][\A task \in tasks \ tasks' :
          (task.pc = "spawned" /\ task.accountID \notin DOMAIN accountTokenMap) =>
              /\ tasks' = tasks \ {task}
              /\ sites' = sites
              /\ discoveredSites' = discoveredSites
              /\ firstFetch' = firstFetch
              /\ laterFetch' = laterFetch]_vars

\* the one tick of a run without discovery cycles dispatched the sites of a
\* store that is not empty, and every task is over without any fetch
C11_Witness ==
    /\ tickerFireCount = 1
    /\ cycleCount = 0
    /\ Len(sites) > 0
    /\ tasks = {}
    /\ \A k \in StoreKeys : firstFetch[k] = "none"

(***************************************************************************)
(* SpecQueue: the refresh loop and its per-site tasks over a store whose   *)
(* site list no discovery cycle changes: main has finished (the start-up   *)
(* collection fetched nothing), the token map holds the accounts whose     *)
(* token authenticated, and fetches take as long as they like.             *)
(***************************************************************************)
MaxQueueTicks == 3   \* SpecQueue: ticks of the refresh loop

QueueMinutes == {1, 2, 3}

\* rm.accountTokenMap after InitializeAccountTokenMap: the tokens that authenticated
RECURSIVE TokenMapOf(_, _, _)
TokenMapOf(authenticated, i, map) ==
    IF i > Len(Tokens) THEN map
    ELSE TokenMapOf(authenticated, i + 1,
                    IF i \in authenticated THEN SetToken(map, Tokens[i]) ELSE map)

TokenMaps == {TokenMapOf(ok, 1, << >>) : ok \in SUBSET (1..Len(Tokens))}

InitQueue ==
    /\ tokenAccounts = DistinctAccounts
    /\ NoSessions
    /\ \E minutes \in QueueMinutes, tokenMap \in TokenMaps,
          o1 \in StartupOutcomes(Tokens[1]), o2 \in StartupOutcomes(Tokens[2]) :
           LET loaded == CollectAllSiteLists(<<o1, o2>>, 1, NothingLoaded, 0)
           IN  /\ Len(loaded.sites) > 0
               /\ refreshMinutes = minutes
               /\ accountTokenMap = tokenMap
               /\ sites = loaded.sites
               /\ preFetchedSites = loaded.data
               /\ discoveredSites = InitializeDiscoveredSites({}, loaded.sites)
    /\ siteLimit = 0
    /\ main = [pc |-> "done", tok |-> Len(Tokens), done |-> {}, count |-> 0]
    /\ cycle = IdleCycle
    /\ cycleCount = 0
    /\ report = NoReport
    /\ addedCount = [k \in StoreKeys |-> 0]
    /\ removedOpen = {}
    /\ removedTwice = FALSE
    /\ firstFetch = [k \in StoreKeys |-> "none"]
    /\ laterFetch = [k \in StoreKeys |-> {}]
    /\ lostSamples = {}
    /\ siteIndex = 0
    /\ tickerFireCount = 0
    /\ tasks = {}
    /\ dispatchCount = << >>
    /\ lastDispatch = << >>
    /\ wraps = 0
    /\ mu = NoLock
    /\ thr = [t \in Threads |-> IdleThread]
    /\ versions = {}
    /\ opsStarted = 0

TickQueue ==
    /\ tickerFireCount < MaxQueueTicks
    /\ Tick
    /\ UNCHANGED <<storeVars, tickHistory, schedVars>>

NextQueue ==
    \/ TickQueue
    \/ \E task \in tasks : TaskNoToken(task)
    \/ \E task \in tasks : TaskStart(task)
    \/ \E task \in tasks, metricsData \in FetchMetricsData(RefreshMetricsDuration)
                                         \cup FetchMetricsData(InitialMetricsDuration) :
           TaskFetchOk(task, metricsData)
    \/ \E task \in tasks : TaskFetchFail(task)

SpecQueue == InitQueue /\ [][NextQueue]_vars

\* C12: the refresh loop does not wait for the tasks it dispatched: whatever
\* tasks are still running, the next tick can fire (and dispatches its batch).
C12_TickNeverWaits ==
    (tasks # {} /\ tickerFireCount < MaxQueueTicks) => ENABLED TickQueue

\* after two ticks or more, more tasks are still running than one tick dispatches
C12_Witness ==
    /\ tickerFireCount >= 2
    /\ Cardinality(tasks) > SitesPerMinute(Len(sites), refreshMinutes)
    /\ \E task \in tasks : task.pc = "fetching"

\* C13: a tick dispatches at most ceil(N/D) sites, N being the number of sites
\* the tick reads and D the interval in minutes, and no site twice.
C13_BatchAtMostSitesPerTick ==
    [][tickerFireCount' # tickerFireCount =>
          /\ Cardinality({i \in 1..Len(sites) : dispatchCount'[i] # dispatchCount[i]})
                 <= SitesPerMinute(Len(sites), refreshMinutes)
          /\ \A i \in 1..Len(sites) : dispatchCount'[i] <= dispatchCount[i] + 1]_vars

\* the last tick dispatched a full batch of several sites, fewer than the list
C13_Witness ==
    /\ tickerFireCount >= 1
    /\ Cardinality({i \in 1..Len(sites) : lastDispatch[i] = tickerFireCount})
           = SitesPerMinute(Len(sites), refreshMinutes)
    /\ SitesPerMinute(Len(sites), refreshMinutes) > 1
    /\ SitesPerMinute(Len(sites), refreshMinutes) < Len(sites)


\* a thread waits in c.mu.Lock() of UpdateSites or UpdateSiteMetrics
WriteWaits(t) == thr[t].pc \in {"UpdateSites.Lock", "UpdateSiteMetrics.Lock"}

\* a thread is in the loop of Collect and has sent points already
Emitting(t) == thr[t].pc = "Collect.loop" /\ Len(thr[t].out) > 0

AccountMaps == {DistinctAccounts, ("tok1" :> "a1") @@ ("tok2" :> "a1")}

InitAccounts ==
    /\ tokenAccounts \in AccountMaps
    /\ NoSessions
    /\ \E limit \in {0, 2}, tokenMap \in TokenMaps,
          o1 \in StartupOutcomes(Tokens[1]), o2 \in StartupOutcomes(Tokens[2]) :
           LET loaded == CollectAllSiteLists(<<o1, o2>>, 1, NothingLoaded, limit)
           IN  /\ siteLimit = limit
               /\ accountTokenMap = tokenMap
               /\ sites = loaded.sites
               /\ preFetchedSites = loaded.data
               /\ discoveredSites = InitializeDiscoveredSites({}, loaded.sites)
    /\ refreshMinutes \in {1, 2}
    /\ main = [pc |-> "done", tok |-> Len(Tokens), done |-> {}, count |-> 0]
    /\ cycle = IdleCycle
    /\ cycleCount = 0
    /\ report = NoReport
    /\ addedCount = [k \in StoreKeys |-> 0]
    /\ removedOpen = {}
    /\ removedTwice = FALSE
    /\ firstFetch = [k \in StoreKeys |-> "none"]
    /\ laterFetch = [k \in StoreKeys |-> {}]
    /\ lostSamples = {}
    /\ siteIndex = 0
    /\ tickerFireCount = 0
    /\ tasks = {}
    /\ dispatchCount = << >>
    /\ lastDispatch = << >>
    /\ wraps = 0
    /\ mu = NoLock
    /\ thr = [t \in Threads |-> IdleThread]
    /\ versions = {}
    /\ opsStarted = 0

NextAccounts ==
    \/ CycleStart
    \/ CycleSiteLimit
    \/ CycleAuthFail
    \/ CycleFetchFail
    \/ \E names \in Listings("a1") \cup Listings("a2") : CycleList(names)
    \/ CycleFinish

SpecAccounts == InitAccounts /\ [][NextAccounts]_vars

\* C16: the store holds at most one record per key (account, site name),
\* whatever accounts the configured tokens belong to.
C16_OneRecordPerKey == KeysUnique(sites)


(***************************************************************************)
(* SpecFetch: the goroutines of the refresh manager as callers of the      *)
(* collector.  A goroutine calls the upstream (FetchMetricsData in         *)
(* refreshSiteMetrics; Authenticate and FetchAllSites in                   *)
(* refreshAllSiteLists, after its GetSites has returned) and only when     *)
(* the call has returned calls UpdateSiteMetrics or UpdateSites, whose     *)
(* lock steps are those of SpecStore; GetSites and Collect run beside.     *)
(***************************************************************************)
FetchPcs == {"FetchMetricsData", "FetchAllSites"}

\* a plausible slip: the task takes the write lock and fetches while holding it
FetchMetricsStartLocked(t, accountID, siteName) ==
    /\ thr[t].pc = "idle"
    /\ opsStarted < MaxOps
    /\ mu = NoLock
    /\ mu' = [mu EXCEPT !.writer = t]
    /\ thr' = [thr EXCEPT ![t] = [IdleThread EXCEPT !.pc = "FetchMetricsData",
                                                    !.arg = <<accountID, siteName>>]]
    /\ opsStarted' = opsStarted + 1
    /\ UNCHANGED <<sites, versions>>

\* refreshSiteMetrics up to rm.client.FetchMetricsData(...): no collector call yet
FetchMetricsStart(t, accountID, siteName) ==
    /\ thr[t].pc = "idle"
    /\ opsStarted < MaxOps
    /\ thr' = [thr EXCEPT ![t] = [IdleThread EXCEPT !.pc = "FetchMetricsData",
                                                    !.arg = <<accountID, siteName>>]]
    /\ opsStarted' = opsStarted + 1
    /\ UNCHANGED <<sites, mu, versions>>

\* FetchMetricsData returned: rm.collector.UpdateSiteMetrics(accountID, siteName, metricsData)
FetchMetricsReturns(t, metricsData) ==
    /\ thr[t].pc = "FetchMetricsData"
    /\ thr' = [thr EXCEPT ![t].pc = "UpdateSiteMetrics.Lock",
                          ![t].arg = <<thr[t].arg[1], thr[t].arg[2], metricsData>>]
    /\ UNCHANGED <<sites, mu, versions, opsStarted>>

\* a call to the upstream failed: log and return (or, in the cycle, nothing was listed)
FetchFails(t) ==
    /\ thr[t].pc \in FetchPcs
    /\ thr' = [thr EXCEPT ![t] = IdleThread]
    /\ UNCHANGED <<sites, mu, versions, opsStarted>>

\* refreshAllSiteLists, after GetSites returned: Authenticate and FetchAllSites per token
FetchSitesStart(t) ==
    /\ thr[t].pc = "idle"
    /\ opsStarted < MaxOps
    /\ thr' = [thr EXCEPT ![t] = [IdleThread EXCEPT !.pc = "FetchAllSites"]]
    /\ opsStarted' = opsStarted + 1
    /\ UNCHANGED <<sites, mu, versions>>

\* the last token is done and sites were listed: rm.collector.UpdateSites(allSiteMetrics)
FetchSitesReturns(t, allSiteMetrics) ==
    /\ thr[t].pc = "FetchAllSites"
    /\ Len(allSiteMetrics) > 0
    /\ thr' = [thr EXCEPT ![t].pc = "UpdateSites.Lock", ![t].arg = allSiteMetrics]
    /\ UNCHANGED <<sites, mu, versions, opsStarted>>

NextFetch ==
    \/ \E t \in Threads, accountID \in Accounts, siteName \in Names :
           FetchMetricsStart(t, accountID, siteName) /\ UNCHANGED <<tickVars, schedVars>>
    \/ \E t \in Threads, metricsData \in FetchMetricsData(RefreshMetricsDuration)
                                        \cup FetchMetricsData(InitialMetricsDuration) :
           FetchMetricsReturns(t, metricsData) /\ UNCHANGED <<tickVars, schedVars>>
    \/ \E t \in Threads : FetchFails(t) /\ UNCHANGED <<tickVars, schedVars>>
    \/ \E t \in Threads : FetchSitesStart(t) /\ UNCHANGED <<tickVars, schedVars>>
    \/ \E t \in Threads, allSiteMetrics \in NewSiteLists :
           FetchSitesReturns(t, allSiteMetrics) /\ UNCHANGED <<tickVars, schedVars>>
    \/ \E t \in Threads : Call(t, "GetSites.RLock", << >>) /\ UNCHANGED <<tickVars, schedVars>>
    \/ \E t \in Threads : Call(t, "Collect.RLock", << >>) /\ UNCHANGED <<tickVars, schedVars>>
    \/ \E t \in Threads : UpdateSitesLock(t) /\ UNCHANGED <<tickVars, schedVars>>
    \/ \E t \in Threads : UpdateSiteMetricsLock(t) /\ UNCHANGED <<tickVars, schedVars>>
    \/ \E t \in Threads : Unlock(t) /\ UNCHANGED <<tickVars, schedVars>>
    \/ \E t \in Threads : GetSitesRLock(t) /\ UNCHANGED <<tickVars, schedVars>>
    \/ \E t \in Threads : GetSitesCopyStep(t) /\ UNCHANGED <<tickVars, schedVars>>
    \/ \E t \in Threads : CollectRLock(t) /\ UNCHANGED <<tickVars, schedVars>>
    \/ \E t \in Threads : CollectLoop(t) /\ UNCHANGED <<tickVars, schedVars>>
    \/ \E t \in Threads : RUnlock(t) /\ UNCHANGED <<tickVars, schedVars>>

SpecFetch == InitStoreOnly /\ [][NextFetch]_vars

\* C14: a goroutine of the refresh manager that is inside a call to the
\* upstream holds the store's lock neither as writer nor as reader; it takes
\* the write lock only after the call has returned.
C14_NoLockAcrossFetch ==
    \A t \in Threads :
        /\ thr[t].pc \in FetchPcs => (mu.writer # t /\ t \notin mu.readers)
        /\ mu.writer = t => thr[t].pc \notin FetchPcs

\* one goroutine writes what its fetch returned while the other is still fetching
C14_Witness ==
    \E t, u \in Threads :
        /\ thr[t].pc = "UpdateSiteMetrics.Unlock"
        /\ thr[t].arg[3] \in FetchMetricsData(RefreshMetricsDuration)
        /\ mu.writer = t
        /\ thr[u].pc \in FetchPcs


\* C17: UpdateSiteMetrics is idempotent: for every store the program reaches
\* and every (accountID, siteName, metricsData), a second application leaves
\* the list as the first left it, the site holding for each timestamp of
\* metricsData the value given.
C17_UpdateSiteMetricsIdempotent ==
    \A accountID \in Accounts, siteName \in Names, metricsData \in NewMetricsMaps :
        LET once == UpdateSiteMetrics(sites, accountID, siteName, metricsData)
            twice == UpdateSiteMetrics(once, accountID, siteName, metricsData)
        IN  /\ twice = once
            /\ \A i \in MatchingSites(sites, accountID, siteName) :
                   i = Min(MatchingSites(sites, accountID, siteName)) =>
                       \A k \in DOMAIN metricsData : twice[i].MetricsData[k] = metricsData[k]

\* a second UpdateSiteMetrics with the arguments of a finished one has just
\* written: the list is as it was before the call
C17_Witness ==
    \E t \in Threads :
        /\ thr[t].pc = "UpdateSiteMetrics.Unlock"
        /\ thr[t].arg[3] \in {D2, D4, D5}
        /\ \E i \in MatchingSites(thr[t].buf, thr[t].arg[1], thr[t].arg[2]) :
               thr[t].buf[i].MetricsData = thr[t].arg[3]
        /\ sites = thr[t].buf

\* C18: UpdateSiteMetrics for an account and site name that match no record
\* of the store goes through (the call is not refused and returns) and
\* leaves the list as it was.
C18_NoMatchNoChange ==
    [][\A t \in Threads :
          (/\ thr[t].pc = "UpdateSiteMetrics.Lock"
           /\ thr'[t].pc # thr[t].pc
           /\ MatchingSites(sites, thr[t].arg[1], thr[t].arg[2]) = {}) =>
              /\ thr'[t].pc = "UpdateSiteMetrics.Unlock"
              /\ sites' = sites]_vars

\* such a call has written and is about to return; the store is not empty
C18_Witness ==
    \E t \in Threads :
        /\ thr[t].pc = "UpdateSiteMetrics.Unlock"
        /\ MatchingSites(thr[t].buf, thr[t].arg[1], thr[t].arg[2]) = {}
        /\ Len(thr[t].buf) > 0
        /\ sites = thr[t].buf


\* C19: when UpdateSites(records) has written, GetSites returns exactly
\* records, in their order: a site that is not in records is gone with its
\* samples, and with no records the store is empty.
C19_UpdateSitesReplacesAll ==
    [][\A t \in Threads :
          (thr[t].pc = "UpdateSites.Lock" /\ thr'[t].pc = "UpdateSites.Unlock") =>
              /\ GetSites(sites') = thr[t].arg
              /\ Len(thr[t].arg) = 0 => Len(sites') = 0]_vars

\* UpdateSites has written a list that lacks a site the store held with samples
C19_Witness ==
    \E t \in Threads :
        /\ thr[t].pc = "UpdateSites.Unlock"
        /\ sites = thr[t].arg
        /\ \E i \in 1..Len(thr[t].buf) :
               /\ thr[t].buf[i].MetricsData # NoMetrics
               /\ SiteKey(thr[t].buf[i]) \notin buildSiteKeyMap(sites)

(***************************************************************************)
(* SpecSnapshot: callers of GetSites that write to the list they got.  A   *)
(* caller holds either the array GetSites made ("sitesCopy") or, were      *)
(* GetSites to return its field, the array of the store ("c.sites"); a     *)
(* write through a Go slice changes the array it points to.                *)
(***************************************************************************)
\* a plausible slip: GetSites returns c.sites itself
GetSitesReturnsField(t) ==
    /\ thr[t].pc = "GetSites.RUnlock"
    /\ mu' = [mu EXCEPT !.readers = @ \ {t}]
    /\ thr' = [thr EXCEPT ![t].pc = "caller", ![t].arg = "c.sites", ![t].buf = sites]
    /\ UNCHANGED <<sites, versions, opsStarted>>

\* defer c.mu.RUnlock(); return sitesCopy
GetSitesReturns(t) ==
    /\ thr[t].pc = "GetSites.RUnlock"
    /\ mu' = [mu EXCEPT !.readers = @ \ {t}]
    /\ thr' = [thr EXCEPT ![t].pc = "caller", ![t].arg = "sitesCopy"]
    /\ UNCHANGED <<sites, versions, opsStarted>>

\* the caller: retrievedSites[i].SiteName = "modified"
CallerWrites(t, i) ==
    /\ thr[t].pc = "caller"
    /\ i \in 1..Len(thr[t].buf)
    /\ thr[t].buf[i].SiteName # "modified"
    /\ thr' = [thr EXCEPT ![t].buf[i].SiteName = "modified"]
    /\ sites' = IF thr[t].arg = "c.sites" THEN [sites EXCEPT ![i].SiteName = "modified"]
                ELSE sites
    /\ UNCHANGED <<mu, versions, opsStarted>>

\* the caller drops the list
CallerDone(t) ==
    /\ thr[t].pc = "caller"
    /\ thr' = [thr EXCEPT ![t] = IdleThread]
    /\ UNCHANGED <<sites, mu, versions, opsStarted>>

NextSnapshot ==
    \/ \E t \in Threads : Call(t, "GetSites.RLock", << >>) /\ UNCHANGED <<tickVars, schedVars>>
    \/ \E t \in Threads : GetSitesRLock(t) /\ UNCHANGED <<tickVars, schedVars>>
    \/ \E t \in Threads : GetSitesCopyStep(t) /\ UNCHANGED <<tickVars, schedVars>>
    \/ \E t \in Threads : GetSitesReturns(t) /\ UNCHANGED <<tickVars, schedVars>>
    \/ \E t \in Threads, i \in 1..MaxStoreSites :
           CallerWrites(t, i) /\ UNCHANGED <<tickVars, schedVars>>
    \/ \E t \in Threads : CallerDone(t) /\ UNCHANGED <<tickVars, schedVars>>

SpecSnapshot == InitStoreOnly /\ [][NextSnapshot]_vars

\* C20: a write to a record of the list GetSites returned changes neither the
\* store nor what a GetSites after it returns.
C20_CallerWriteLeavesStore ==
    [][\A t \in Threads :
          (thr[t].pc = "caller" /\ thr'[t].pc = "caller" /\ thr'[t].buf # thr[t].buf) =>
              /\ sites' = sites
              /\ GetSites(sites') = GetSites(sites)
              /\ \A u \in Threads :
                     thr'[u].pc = "GetSites.RUnlock" => thr'[u].buf = GetSites(sites)]_vars

\* a caller has renamed a site in its list; the store and the list another
\* GetSites returned hold the original name
C20_Witness ==
    \E t, u \in Threads :
        /\ thr[t].pc = "caller"
        /\ Len(thr[t].buf) > 0
        /\ thr[t].buf[1].SiteName = "modified"
        /\ thr[u].pc = "caller"
        /\ Len(thr[u].buf) > 0
        /\ thr[u].buf = sites
        /\ sites[1].SiteName # "modified"


\* the number of points of thread t's export that come from the sample under
\* key k of site and are of the given kind
PointCount(t, site, k, kind) ==
    Cardinality({j \in PointsOf(t, site) :
                    thr[t].out[j].key = k /\ thr[t].out[j].kind = kind})

\* C21: in one export a sample whose key does not parse as an integer gives
\* no point, and every sample whose key parses, of that site and of every
\* other, gives its five points.
C21_UnparsableKeySkipped ==
    \A t \in Threads :
        thr[t].pc = "Collect.RUnlock" =>
            \A i \in 1..Len(sites) :
                \A k \in DOMAIN sites[i].MetricsData, kind \in Range(MetricKinds) :
                    PointCount(t, sites[i], k, kind) = IF ParseIntOk(k) THEN 1 ELSE 0

\* an export of a site that has a sample under "x" and one under "1", beside
\* a site with three samples: five points and fifteen
C21_Witness ==
    \E t \in Threads :
        /\ thr[t].pc = "Collect.RUnlock"
        /\ \E i, j \in 1..Len(sites) :
               /\ sites[i].MetricsData = D5
               /\ Cardinality(PointsOf(t, sites[i])) = 5
               /\ sites[j].MetricsData = D3
               /\ Cardinality(PointsOf(t, sites[j])) = 15


(***************************************************************************)
(* SpecRatio: exports of one site with two samples whose cache-hit-ratio   *)
(* strings are drawn from RatioInputs.                                     *)
(***************************************************************************)
\* data.CacheHitRatio as the upstream library may send it
RatioInputs ==
    {<<"3", ".", "8", "6", "%">>, <<"3", ".", "8", "6">>, <<"-", "-">>,
     <<"i", "n", "v", "a", "l", "i", "d", "%">>, << >>, <<"1", "0", "0", "%">>,
     <<"0">>, <<"5", "0">>}

InitRatio ==
    /\ \E r1, r2 \in RatioInputs :
           sites = <<SiteMetrics("a1", "s1",
                        (K1 :> [SampleA EXCEPT !.CacheHitRatio = r1])
                           @@ (K2 :> [SampleB EXCEPT !.CacheHitRatio = r2]))>>
    /\ mu = NoLock
    /\ thr = [t \in Threads |-> IdleThread]
    /\ versions = {sites}
    /\ opsStarted = 0
    /\ NoTick
    /\ NoSched

NextRatio ==
    \/ \E t \in Threads : Call(t, "Collect.RLock", << >>) /\ UNCHANGED <<tickVars, schedVars>>
    \/ \E t \in Threads : CollectRLock(t) /\ UNCHANGED <<tickVars, schedVars>>
    \/ \E t \in Threads : CollectLoop(t) /\ UNCHANGED <<tickVars, schedVars>>
    \/ \E t \in Threads : RUnlock(t) /\ UNCHANGED <<tickVars, schedVars>>

SpecRatio == InitRatio /\ [][NextRatio]_vars

\* the ratio, in units of 1/10000, that each input of the model stands for
ExpectedRatio(ratio) ==
    CASE ratio = <<"3", ".", "8", "6", "%">> -> 386
      [] ratio = <<"3", ".", "8", "6">> -> 386
      [] ratio = <<"1", "0", "0", "%">> -> 10000
      [] ratio = <<"5", "0">> -> 5000
      [] OTHER -> 0

C24_DiscoveredSitesOnlyGrow == [][discoveredSites \subseteq discoveredSites']_vars

\* a cycle has added one site and removed another from the store: the map
\* still holds the removed key, beside the new one
C24_Witness ==
    /\ cycle.pc = "idle"
    /\ report.logged
    /\ report.added # {}
    /\ \E k \in report.removed : k \in discoveredSites /\ k \notin buildSiteKeyMap(sites)
    /\ report.added \subseteq discoveredSites


\* the keys of a list of records, in order
KeysOf(list) == [i \in 1..Len(list) |-> SiteKey(list[i])]

\* the number of sites the start-up collection was given, over the tokens
RECURSIVE ListedCount(_)
ListedCount(i) ==
    IF i = 0 THEN 0 ELSE ListedCount(i - 1) + Len(preFetchedSites[Tokens[i]].names)

\* how many of n further sites a list of length len takes under the limit
Taken(len, n) == IF siteLimit = 0 THEN n ELSE Min({n, siteLimit - len})

\* C25: with a site limit L > 0 the list a discovery cycle builds and the list
\* collected at start-up have at most L records, the first L in the order in
\* which the tokens and their listings are gone through; with L = 0 every
\* listed site is taken.
C25_SiteLimit ==
    /\ [](/\ siteLimit > 0 => (Len(sites) <= siteLimit
                                 /\ Len(cycle.allSiteMetrics) <= siteLimit)
          /\ cycleCount = 0 => Len(sites) = Taken(0, ListedCount(Len(Tokens))))
    /\ [][(cycle.pc = "listing" /\ cycle'.pc = "listing"
             /\ cycle'.allSiteMetrics # cycle.allSiteMetrics) =>
              \E names \in Listings(AccountOf(Tokens[cycle.tok])) :
                  LET old == cycle.allSiteMetrics
                      n == Taken(Len(old), Len(names))
                  IN  KeysOf(cycle'.allSiteMetrics) =
                          KeysOf(old) \o [i \in 1..n |->
                                             <<AccountOf(Tokens[cycle.tok]), names[i]>>]]_vars

\* a cycle under the limit 2 took s1 from the first token and, of the two
\* sites the second token listed, only the first
C25_Witness ==
    /\ siteLimit = 2
    /\ cycle.pc = "listing"
    /\ cycle.tok = 3
    /\ KeysOf(cycle.allSiteMetrics) = << <<"a1", "s1">>, <<"a1", "s2">> >>


\* C26: when Authenticate fails for a token in a discovery cycle, the cycle
\* takes no record for it, leaves accountTokenMap exactly as it was and goes on
\* with the next token.
C26_AuthFailureSkipsAccount ==
    [][CycleAuthFail =>
          /\ cycle'.allSiteMetrics = cycle.allSiteMetrics
          /\ cycle'.newSitesMap = cycle.newSitesMap
          /\ accountTokenMap' = accountTokenMap
          /\ sites' = sites
          /\ cycle'.pc = "listing"
          /\ cycle'.tok = cycle.tok + 1]_vars

\* a cycle in which the first token was rejected (its account, which had
\* sites in the store, has no entry in the map) and the second was listed
C26_Witness ==
    /\ tokenAccounts = DistinctAccounts
    /\ NoSessions
    /\ cycle.pc = "listing"
    /\ cycle.tok = 3
    /\ "a1" \notin DOMAIN accountTokenMap
    /\ \E i \in 1..Len(cycle.existingSites) : cycle.existingSites[i].Account = "a1"
    /\ KeysOf(cycle.allSiteMetrics) = << <<"a2", "s1">> >>


\* C27: when FetchMetricsData fails in a per-site task, the task ends and
\* nothing else changes: the store, the cursor and the manager's maps are as
\* they were; and whatever the tasks do, the next tick can fire.
C27_FetchFailureContained ==
    /\ [][\A task \in tasks :
              TaskFetchFail(task) =>
                  /\ sites' = sites
                  /\ tasks' = tasks \ {task}
                  /\ siteIndex' = siteIndex
                  /\ tickerFireCount' = tickerFireCount
                  /\ discoveredSites' = discoveredSites
                  /\ accountTokenMap' = accountTokenMap
                  /\ cycle' = cycle]_vars
    /\ [](tickerFireCount < MaxQueueTicks => ENABLED TickQueue)

\* three ticks have fired and a later tick dispatched a site again, a task
\* of an earlier tick fetched, and the store has no samples: every fetch failed
C27_Witness ==
    /\ tickerFireCount = 3
    /\ tasks # {}
    /\ \E k \in StoreKeys : firstFetch[k] # "none" /\ laterFetch[k] # {}
    /\ \A i \in 1..Len(sites) : sites[i].MetricsData = NoMetrics

\* C28: a discovery cycle that has collected no record when it ends (every
\* token was rejected or its listing failed) leaves the store exactly as it
\* was.
C28_EmptyCycleKeepsStore ==
    [][(CycleEnds /\ Len(cycle.allSiteMetrics) = 0) => sites' = sites]_vars

\* such a cycle has ended and the store still holds its sites, with samples
C28_Witness ==
    /\ cycle.pc = "idle"
    /\ cycleCount >= 1
    /\ ~report.logged
    /\ report.existingKeys # {}
    /\ \E i \in 1..Len(sites) : sites[i].MetricsData # NoMetrics
    /\ buildSiteKeyMap(sites) = report.existingKeys

(***************************************************************************)
(* SpecLoops: the two loops of the manager side by side, from the state    *)
(* main leaves (which may be an empty store): discovery cycles and the     *)
(* ticks of the refresh loop; the tasks a tick starts are left running.    *)
(***************************************************************************)
NextLoops ==
    \/ NextAccounts
    \/ TickQueue

SpecLoops == InitAccounts /\ [][NextLoops]_vars

C30_InitializedBeforeLoops ==
    main.pc = "InitializeAccountTokenMap" =>
        /\ tickerFireCount = 0
        /\ cycleCount = 0
        /\ tasks = {}


(***************************************************************************)
(* SpecSession: goroutines calling the session manager.  GetSession reads  *)
(* the map under the read lock, releases it, and calls Authenticate, which *)
(* takes the write lock for the whole login; InvalidateSession deletes     *)
(* under the write lock.                                                   *)
(***************************************************************************)
\* the maps a test stores by hand: for some of the tokens a session, with a
\* client or with none
InitSessionMaps ==
    LET StoredSessions == {Session(k, <<"stored", 0>>, "user", client) :
                               k \in Range(Tokens), client \in {"client", "nil"}}
    IN  UNION {{m \in [S -> StoredSessions] : \A k \in S : m[k].MachineToken = k} :
                   S \in SUBSET Range(Tokens)}

InitSession ==
    /\ sessions \in InitSessionMaps
    /\ smMu = NoLock
    /\ smThr = [t \in SmThreads |-> IdleCaller]
    /\ sites = << >>
    /\ mu = NoLock
    /\ thr = [t \in Threads |-> IdleThread]
    /\ versions = {}
    /\ opsStarted = 0
    /\ NoTick
    /\ NoManager

\* a goroutine calls GetSession, Authenticate or InvalidateSession
SmCall(t, op, machineToken) ==
    /\ smThr[t].pc \in {"idle", "done"}
    /\ smThr[t].calls < MaxSmCalls
    /\ smThr' = [smThr EXCEPT ![t] =
           [IdleCaller EXCEPT !.pc = op, !.op = op, !.machineToken = machineToken,
                              !.calls = smThr[t].calls + 1]]
    /\ UNCHANGED <<sessions, smMu>>

\* GetSession: sm.mu.RLock()
GetSessionRLock(t) ==
    /\ smThr[t].pc = "GetSession"
    /\ smMu.writer = "none"
    /\ smMu' = [smMu EXCEPT !.readers = @ \cup {t}]
    /\ smThr' = [smThr EXCEPT ![t].pc = "lookup"]
    /\ UNCHANGED sessions

\* GetSession: session, exists := sm.sessions[machineToken]; sm.mu.RUnlock()
GetSessionLookup(t) ==
    /\ smThr[t].pc = "lookup"
    /\ LET k == smThr[t].machineToken
       IN  smThr' = [smThr EXCEPT ![t].pc = "check",
                                  ![t].exists = k \in DOMAIN sessions,
                                  ![t].session = IF k \in DOMAIN sessions
                                                 THEN sessions[k] ELSE NilSession]
    /\ smMu' = [smMu EXCEPT !.readers = @ \ {t}]
    /\ UNCHANGED sessions

\* a plausible slip: the client of the stored session is not looked at
GetSessionReturnsAnyStored(t) ==
    /\ smThr[t].pc = "check"
    /\ smThr[t].exists
    /\ smThr' = [smThr EXCEPT ![t].pc = "done", ![t].ret = smThr[t].session]
    /\ UNCHANGED <<sessions, smMu>>

\* GetSession: exists && session.Client != nil: return session, nil
GetSessionReturn(t) ==
    /\ smThr[t].pc = "check"
    /\ smThr[t].exists /\ smThr[t].session.Client # "nil"
    /\ smThr' = [smThr EXCEPT ![t].pc = "done", ![t].ret = smThr[t].session]
    /\ UNCHANGED <<sessions, smMu>>

\* GetSession: otherwise return sm.Authenticate(ctx, machineToken)
GetSessionAuthenticate(t) ==
    /\ smThr[t].pc = "check"
    /\ ~(smThr[t].exists /\ smThr[t].session.Client # "nil")
    /\ smThr' = [smThr EXCEPT ![t].pc = "Authenticate"]
    /\ UNCHANGED <<sessions, smMu>>

\* Authenticate: sm.mu.Lock()
AuthenticateLock(t) ==
    /\ smThr[t].pc = "Authenticate"
    /\ smMu = NoLock
    /\ smMu' = [smMu EXCEPT !.writer = t]
    /\ smThr' = [smThr EXCEPT ![t].pc = "Login"]
    /\ UNCHANGED sessions

\* Authenticate: Login fails: return nil, err (the deferred Unlock runs)
AuthenticateFail(t) ==
    /\ smThr[t].pc = "Login"
    /\ smThr' = [smThr EXCEPT ![t].pc = "done", ![t].login = TRUE,
                              ![t].ret = NilSession, ![t].err = TRUE]
    /\ smMu' = NoLock
    /\ UNCHANGED sessions

\* Authenticate: Login succeeds; the email is the user's, or the account id
\* of the token when Whoami fails; the new session replaces the stored one
\* and is returned (the deferred Unlock runs)
AuthenticateOk(t) ==
    /\ smThr[t].pc = "Login"
    /\ \E email \in {"user", "token"} :
           LET k == smThr[t].machineToken
               session == Session(k, <<t, smThr[t].calls>>, email, "client")
           IN  /\ sessions' = [x \in DOMAIN sessions \cup {k} |->
                                   IF x = k THEN session ELSE sessions[x]]
               /\ smThr' = [smThr EXCEPT ![t].pc = "done", ![t].login = TRUE,
                                         ![t].ret = session]
    /\ smMu' = NoLock

\* InvalidateSession: sm.mu.Lock()
InvalidateSessionLock(t) ==
    /\ smThr[t].pc = "InvalidateSession"
    /\ smMu = NoLock
    /\ smMu' = [smMu EXCEPT !.writer = t]
    /\ smThr' = [smThr EXCEPT ![t].pc = "delete"]
    /\ UNCHANGED sessions

\* a plausible slip: invalidating one token drops every session
InvalidateSessionAll(t) ==
    /\ smThr[t].pc = "delete"
    /\ sessions' = << >>
    /\ smThr' = [smThr EXCEPT ![t].pc = "done"]
    /\ smMu' = NoLock

\* InvalidateSession: delete(sm.sessions, machineToken) (the deferred Unlock runs)
InvalidateSession(t) ==
    /\ smThr[t].pc = "delete"
    /\ sessions' = [x \in DOMAIN sessions \ {smThr[t].machineToken} |-> sessions[x]]
    /\ smThr' = [smThr EXCEPT ![t].pc = "done"]
    /\ smMu' = NoLock

NextSession ==
    \/ \E t \in SmThreads, op \in {"GetSession", "Authenticate", "InvalidateSession"},
             k \in Range(Tokens) :
           SmCall(t, op, k) /\ UNCHANGED <<storeVars, tickVars, managerVars>>
    \/ \E t \in SmThreads : GetSessionRLock(t) /\ UNCHANGED <<storeVars, tickVars, managerVars>>
    \/ \E t \in SmThreads : GetSessionLookup(t) /\ UNCHANGED <<storeVars, tickVars, managerVars>>
    \/ \E t \in SmThreads : GetSessionReturn(t) /\ UNCHANGED <<storeVars, tickVars, managerVars>>
    \/ \E t \in SmThreads :
           GetSessionAuthenticate(t) /\ UNCHANGED <<storeVars, tickVars, managerVars>>
    \/ \E t \in SmThreads : AuthenticateLock(t) /\ UNCHANGED <<storeVars, tickVars, managerVars>>
    \/ \E t \in SmThreads : AuthenticateFail(t) /\ UNCHANGED <<storeVars, tickVars, managerVars>>
    \/ \E t \in SmThreads : AuthenticateOk(t) /\ UNCHANGED <<storeVars, tickVars, managerVars>>
    \/ \E t \in SmThreads :
           InvalidateSessionLock(t) /\ UNCHANGED <<storeVars, tickVars, managerVars>>
    \/ \E t \in SmThreads : InvalidateSession(t) /\ UNCHANGED <<storeVars, tickVars, managerVars>>

SpecSession == InitSession /\ [][NextSession]_vars


\* a goroutine's step from pc = from to pc = to
SmStep(t, from, to) == smThr[t].pc = from /\ smThr'[t].pc = to

\* C31: InvalidateSession(token) removes the session of that token and of no
\* other (nothing changes when the token has none); a token without a session
\* gets one only when an Authenticate for it stores a new one, so concurrent
\* invalidations leave their tokens without a session; and a GetSession that
\* finds no session logs in and returns the new session or the error, never a
\* session that was stored before.
C31_InvalidateRemovesExactly ==
    /\ [][\A t \in SmThreads : SmStep(t, "delete", "done") =>
              LET k == smThr[t].machineToken
              IN  /\ DOMAIN sessions' = DOMAIN sessions \ {k}
                  /\ \A x \in DOMAIN sessions' : sessions'[x] = sessions[x]
                  /\ k \notin DOMAIN sessions => sessions' = sessions]_vars
    /\ [][\A k \in DOMAIN sessions' \ DOMAIN sessions :
              \E t \in SmThreads :
                  SmStep(t, "Login", "done") /\ smThr[t].machineToken = k]_vars
    /\ [](\A t \in SmThreads :
              (smThr[t].op = "GetSession" /\ smThr[t].pc = "done" /\ ~smThr[t].exists) =>
                  /\ smThr[t].login
                  /\ smThr[t].err
                       \/ smThr[t].ret.SessionToken = <<t, smThr[t].calls>>)

\* g1 has invalidated tok1 while tok2 kept the session it had, and the
\* GetSession(tok1) that g2 made as its second call found nothing, logged in
\* and returned the session that is now stored
C31_Witness ==
    /\ smThr["g1"].op = "InvalidateSession" /\ smThr["g1"].pc = "done"
    /\ smThr["g1"].machineToken = "tok1"
    /\ smThr["g2"].op = "GetSession" /\ smThr["g2"].pc = "done"
    /\ smThr["g2"].machineToken = "tok1"
    /\ ~smThr["g2"].exists /\ smThr["g2"].login /\ ~smThr["g2"].err
    /\ smThr["g2"].ret.SessionToken = <<"g2", 2>>
    /\ "tok1" \in DOMAIN sessions /\ sessions["tok1"] = smThr["g2"].ret
    /\ "tok2" \in DOMAIN sessions /\ sessions["tok2"].SessionToken = <<"stored", 0>>


\* C32: a GetSession whose lookup finds a session with a client returns that
\* session, the one the map held, without logging in, and no step of it
\* changes the map; one that finds a session without a client goes on to
\* Authenticate as if it had found none.
C32_GetSessionReturnsStored ==
    /\ [][\A t \in SmThreads :
              /\ SmStep(t, "lookup", "check") /\ smThr[t].machineToken \in DOMAIN sessions =>
                     smThr'[t].exists /\ smThr'[t].session = sessions[smThr[t].machineToken]
              /\ smThr[t].pc \in {"GetSession", "lookup", "check"} /\ smThr'[t] # smThr[t] =>
                     sessions' = sessions]_vars
    /\ [](\A t \in SmThreads :
              smThr[t].op = "GetSession" /\ smThr[t].exists =>
                  IF smThr[t].session.Client # "nil"
                  THEN /\ smThr[t].pc \in {"check", "done"}
                       /\ ~smThr[t].login /\ ~smThr[t].err
                       /\ smThr[t].pc = "done" => smThr[t].ret = smThr[t].session
                  ELSE /\ smThr[t].pc \in {"check", "Authenticate", "Login", "done"}
                       /\ smThr[t].pc = "done" => smThr[t].login)

\* g1 got from GetSession(tok1) the stored session, which has a client, with
\* no login, and the map still holds it; g2 found for tok2 a session without
\* a client and logged in
C32_Witness ==
    /\ smThr["g1"].op = "GetSession" /\ smThr["g1"].pc = "done"
    /\ smThr["g1"].machineToken = "tok1"
    /\ smThr["g1"].exists /\ smThr["g1"].session.Client = "client"
    /\ smThr["g1"].ret.SessionToken = <<"stored", 0>> /\ ~smThr["g1"].login
    /\ "tok1" \in DOMAIN sessions /\ sessions["tok1"] = smThr["g1"].ret
    /\ smThr["g2"].op = "GetSession" /\ smThr["g2"].pc = "done"
    /\ smThr["g2"].machineToken = "tok2"
    /\ smThr["g2"].exists /\ smThr["g2"].session.Client = "nil"
    /\ smThr["g2"].login /\ ~smThr["g2"].err
    /\ sessions["tok2"].Client = "client"


\* C40: when nothing has been invalidated and two goroutines' calls of
\* GetSession for one token both found no session and both returned without
\* error, at most one of them logged in, and both returned the session that
\* is stored for the token.
C40_OneLoginSameSession ==
    (/\ \A t \in SmThreads : smThr[t].calls <= 1 /\ smThr[t].op # "InvalidateSession"
     /\ smThr["g1"].op = "GetSession" /\ smThr["g2"].op = "GetSession"
     /\ smThr["g1"].machineToken = smThr["g2"].machineToken
     /\ \A t \in SmThreads : smThr[t].pc = "done" /\ ~smThr[t].exists /\ ~smThr[t].err)
    => /\ ~(smThr["g1"].login /\ smThr["g2"].login)
       /\ smThr["g1"].ret = smThr["g2"].ret
       /\ smThr["g1"].ret = sessions[smThr["g1"].machineToken]


\* C33: a tick that finds N >= 1 sites, wherever earlier ticks left the
\* cursor and whatever discovery cycles did to the list since, dispatches the
\* sites at the positions i+1 .. j of the list for some 0 <= i < j <= N,
\* where i is the cursor, or 0 when the cursor is N or more; the cursor
\* after the tick is j, or 0 when j = N, so it is below N.
C33_BatchInRange ==
    [][(tickerFireCount' # tickerFireCount /\ Len(sites) >= 1) =>
           \E i \in 0..(Len(sites) - 1), j \in 1..Len(sites) :
               /\ i < j
               /\ i = IF siteIndex >= Len(sites) THEN 0 ELSE siteIndex
               /\ tasks' = tasks \cup {NewTask(sites[x]) : x \in (i + 1)..j}
               /\ siteIndex' = IF j = Len(sites) THEN 0 ELSE j
               /\ siteIndex' \in 0..(Len(sites) - 1)]_vars

\* after a tick left the cursor at 1, a discovery cycle has replaced the
\* list by a list of one site: the cursor is beyond the list when the next
\* tick fires
C33_Witness ==
    /\ tickerFireCount >= 1
    /\ cycleCount >= 1 /\ cycle.pc = "idle"
    /\ Len(sites) = 1
    /\ siteIndex = 1
    /\ ENABLED TickQueue


\* the point of an export without its timestamp
Untimed(p) == [kind |-> p.kind, site |-> p.site, value |-> p.value, key |-> p.key]

\* the greatest instant among the keys of site that parse
LatestInstant(site) ==
    Max({ParseInt(k) : k \in {x \in DOMAIN site.MetricsData : ParseIntOk(x)}})

\* C34: no step of an export changes the store, and two exports of the same
\* store (both hold the read lock, so no write lies between them) emit for
\* every site as many points, with the same labels, sample and value, and the
\* same timestamp except on the points of a sample of the latest instant
\* (which carry the time of their export).
C34_ExportsAgree ==
    /\ [][\A t \in Threads :
              (thr[t].pc \in {"Collect.RLock", "Collect.loop", "Collect.RUnlock"}
                 /\ thr'[t] # thr[t]) => sites' = sites]_vars
    /\ []((\A t \in Threads : thr[t].pc = "Collect.RUnlock") =>
              \A a, b \in Threads, i \in 1..Len(sites) :
                  /\ Cardinality(PointsOf(a, sites[i])) = Cardinality(PointsOf(b, sites[i]))
                  /\ \A j \in PointsOf(a, sites[i]) :
                         \E l \in PointsOf(b, sites[i]) :
                             /\ Untimed(thr[a].out[j]) = Untimed(thr[b].out[l])
                             /\ \/ thr[a].out[j].ts = thr[b].out[l].ts
                                \/ ParseInt(thr[a].out[j].key) = LatestInstant(sites[i]))

\* two exports of a site with three samples have finished; the points of the
\* latest sample carry the time 10 in one and 11 in the other
C34_Witness ==
    /\ \A t \in Threads : thr[t].pc = "Collect.RUnlock" /\ Len(thr[t].out) = 15
    /\ Len(sites) = 1
    /\ thr["t1"].out[15].key = K3 /\ thr["t1"].out[15].ts = Now0
    /\ thr["t2"].out[15].key = K3 /\ thr["t2"].out[15].ts = Now0 + 1
    /\ thr["t1"].out[1].key # thr["t2"].out[1].key


\* C35: when UpdateSiteMetrics(accountID, siteName, metricsData) has written,
\* the list has the records it had, in their order and with their accounts
\* and site names; the only sample map that may differ is that of the first
\* record matching accountID and siteName, which is metricsData; so a call for
\* a site that an UpdateSites has removed meanwhile does not put it back.
C35_OnlyOneSampleMapChanges ==
    \A t \in Threads :
        thr[t].pc = "UpdateSiteMetrics.Unlock" =>
            LET before == thr[t].buf
                m == MatchingSites(before, thr[t].arg[1], thr[t].arg[2])
            IN  /\ Len(sites) = Len(before)
                /\ \A i \in 1..Len(before) :
                       /\ SiteKey(sites[i]) = SiteKey(before[i])
                       /\ sites[i].MetricsData # before[i].MetricsData =>
                              /\ m # {} /\ i = Min(m)
                              /\ sites[i].MetricsData = thr[t].arg[3]
                /\ <<thr[t].arg[1], thr[t].arg[2]>> \in buildSiteKeyMap(sites)
                       <=> m # {}

\* an UpdateSiteMetrics for a site that the store held before an UpdateSites
\* removed it has written: the site is not back, and the two records of the
\* store are as they were
C35_Witness ==
    \E t \in Threads :
        /\ thr[t].pc = "UpdateSiteMetrics.Unlock"
        /\ <<thr[t].arg[1], thr[t].arg[2]>> \notin buildSiteKeyMap(sites)
        /\ \E v \in versions : <<thr[t].arg[1], thr[t].arg[2]>> \in buildSiteKeyMap(v)
        /\ Len(sites) = 2
        /\ sites = thr[t].buf


\* C36: no two activities of the manager (main's InitializeAccountTokenMap,
\* the discovery cycle, the per-site tasks) are at the same time about to
\* access the account-token map, or the discovered-sites map, with at least
\* one of them writing.
C36_MapAccessSerialised ==
    LET spawned == {task \in tasks : task.pc = "spawned"}
        withToken == {task \in spawned : task.accountID \in DOMAIN accountTokenMap}
        cycleSetsToken == CycleAtToken /\ ~CycleLimitReached
        cycleEnds == cycle.pc = "listing" /\ cycle.tok > Len(Tokens)
        cycleMarks == cycleEnds /\ findAddedSites(buildSiteKeyMap(cycle.existingSites),
                                                  cycle.newSitesMap, discoveredSites) # {}
        Count(b) == IF b THEN 1 ELSE 0
        tokenWriters == Count(main.pc = "InitializeAccountTokenMap") + Count(cycleSetsToken)
        tokenReaders == Cardinality(spawned)
        discoveredWriters ==
            Cardinality({task \in withToken : TaskKey(task) \notin discoveredSites})
              + Count(cycleMarks)
        discoveredAccesses == Cardinality(withToken) + Count(cycleEnds)
    IN  /\ tokenWriters > 0 => tokenWriters + tokenReaders = 1
        /\ discoveredWriters > 0 => discoveredAccesses = 1


\* C37: when a discovery cycle replaces the store, every site that is in the
\* store before and after has afterwards the samples it had just before the
\* replacement, those written since the cycle took its snapshot included.
C37_CycleKeepsNewerSamples ==
    [][CycleEnds =>
           \A key \in buildSiteKeyMap(sites) \cap buildSiteKeyMap(sites') :
               SamplesOf(sites', key) = SamplesOf(sites, key)]_vars


\* C38: a per-site task fetches with the incremental window only when a
\* fetch of the site with the backfill window has succeeded before.  In every
\* state this requires of a task that is fetching with the 1d window that a
\* backfill of its site was at least made: the start-up collection has
\* stored the samples of some site, or a task of the site has asked for 28d.
C38_IncrementalAfterBackfill ==
    \A task \in tasks :
        (task.pc = "fetching" /\ task.duration = RefreshMetricsDuration) =>
            \/ main.count > 0
            \/ firstFetch[TaskKey(task)] = InitialMetricsDuration
            \/ InitialMetricsDuration \in laterFetch[TaskKey(task)]


(***************************************************************************)
(* SpecFair: the two loops of the manager running for ever.  The tickers   *)
(* fire again and again and a discovery cycle, once started, runs to its   *)
(* end.  The loops do not read the two counters: the count of the ticks   *)
(* is kept in a narrow integer that wraps, so that every tick is a step,   *)
(* and the count of the cycles stops at its bound.  The tasks a tick       *)
(* starts are left running.                                                *)
(***************************************************************************)
\* refreshMetricsWithQueue: one firing of the ticker
TickFair ==
    /\ tickerFireCount' = (tickerFireCount + 1) % (MaxQueueTicks + 1)
    /\ LET currentSites == GetSites(sites)
       IN  IF Len(currentSites) = 0
           THEN UNCHANGED <<siteIndex, tasks>>
           ELSE /\ tasks' = tasks \cup
                       {NewTask(currentSites[i]) :
                            i \in Batch(currentSites, siteIndex, refreshMinutes)}
                /\ siteIndex' = NextIndex(currentSites, siteIndex, refreshMinutes)
    /\ UNCHANGED <<refreshMinutes, storeVars, tickHistory, schedVars>>

\* refreshSiteListsPeriodically: the ticker fires: existingSites := rm.collector.GetSites()
CycleStartFair ==
    /\ cycle.pc = "idle"
    /\ cycle' = [pc |-> "listing", existingSites |-> GetSites(sites), tok |-> 1,
                 allSiteMetrics |-> << >>, newSitesMap |-> {},
                 discoveredBefore |-> discoveredSites]
    /\ cycleCount' = IF cycleCount < MaxRounds THEN cycleCount + 1 ELSE cycleCount
    /\ UNCHANGED <<storeVars, tickVars, discoveredSites, accountTokenMap, siteLimit,
                   tokenAccounts, sessionVars, preFetchedSites, main, report, addedCount,
                   removedOpen, removedTwice, fetchHistory, lostSamples>>

\* the steps of a discovery cycle that has started
CycleStep ==
    \/ CycleSiteLimit
    \/ CycleAuthFail
    \/ CycleFetchFail
    \/ \E names \in Listings("a1") \cup Listings("a2") : CycleList(names)
    \/ CycleFinish

NextFair ==
    \/ TickFair
    \/ CycleStartFair
    \/ CycleStep

SpecFair ==
    /\ InitAccounts
    /\ [][NextFair]_vars
    /\ WF_vars(TickFair)
    /\ WF_vars(CycleStartFair)
    /\ WF_vars(CycleStep)

\* a tick dispatches the site with this key
Dispatches(key) ==
    /\ TickFair
    /\ \E i \in Batch(sites, siteIndex, refreshMinutes) : SiteKey(sites[i]) = key

====
